---- MODULE Spec2Model ----
(***************************************************************************)
(* Midnight Mile voice core: the priority voice queue (VoiceQueueService,  *)
(* src/src/services/voiceQueue.ts) and the voice assistant that drives it  *)
(* (VoiceAssistantService, src/unnamed/part_001).                          *)
(*                                                                         *)
(* JavaScript runs one callback at a time: every action below is one       *)
(* macrotask (a call from outside, a timer, a network response, an engine  *)
(* or audio event) together with every promise continuation it triggers.   *)
(***************************************************************************)
EXTENDS Integers, Sequences, FiniteSets, TLC

\* Bounds of the model
\*   MaxJobs    jobs passed to queueVoice in a run of the queue alone
\*   MaxFlushes clearQueue()/cleanup() calls in a run
\*   MaxSpeech  jobs the assistant passes to queueVoice in a run (the
\*              announcement that closes a safe-spot request may be one more)
\*   MaxEvents  stimuli of the assistant in a run: calls from the host
\*              (setCallbacks is not counted), accepted transcripts and
\*              engine errors
\*   MaxChecks  jobs the assistant passes to queueVoice in a run in which no
\*              transcript arrives (SpecQuiet)
\*   MaxCommandJobs  jobs enqueued for the transcripts of a run in which
\*              every transcript is a voice command (SpecCommands); the
\*              announcement that closes a safe-spot request may be one more
\*   MaxDangerZones  largest dangerZones count of a route in the contexts
\*              for which the safety-check message is generated (SpecMessage)
MaxJobs == 3
MaxFlushes == 1
MaxSpeech == 1
MaxEvents == 4
MaxChecks == 2
MaxCommandJobs == 2
MaxDangerZones == 3

\* VoiceAssistantService.SAFETY_CHECK_INTERVAL, in milliseconds
SAFETY_CHECK_INTERVAL == 10000

\* Date.now() advances in steps of half an interval
TickMs == SAFETY_CHECK_INTERVAL \div 2

\* safetyCheckTimeout = null
NoTimer == 0 - 1

JobIds == 1..MaxJobs
JobTypes == {"conversation", "navigation", "safety-check"}
TranscriptIds == 1..MaxEvents

\* A job's promise: pending, resolved, rejected by a synthesis/playback
\* error ("failed") or rejected with Error("Voice queue cleared") ("cleared")
FutureStates == {"none", "pending", "resolved", "failed", "cleared"}

\* Position of a drain loop inside executeVoiceJob / processQueue:
\*   fetch     the ElevenLabs request is in flight
\*   loading   audio.play() was called, its promise is pending
\*   playing   the audio element is playing
\*   stopped   the audio element was paused while playing: neither onended
\*             nor onerror will fire, the playback promise stays pending
\*   abort     the audio element was paused while play() was pending: the
\*             play() promise is about to reject (AbortError)
\*   fallback  the browser speechSynthesis utterance is being spoken
\*   canceled  the utterance was cancelled by speechSynthesis.cancel(); its
\*             end or error event is pending
\*   delay     the job is settled, the 100 ms inter-job delay is pending
LoopPcs == {"fetch", "loading", "playing", "stopped", "abort", "fallback",
            "canceled", "delay"}

\* State of the browser's recognition engine behind this.recognition:
\*   idle      not started
\*   starting  start() was called, the start event is pending
\*   running   started: results, errors and the end event can be delivered
\*   stopping  stop() was called on the started engine: a last final
\*             result may still be delivered, then the end event
\*   ending    an error was raised, or stop() was called before the engine
\*             had started: only the end event is pending
EngineStates == {"idle", "starting", "running", "stopping", "ending"}

\* SpeechRecognitionErrorEvent.error values told apart by onerror
ErrorKinds == {"not-allowed", "audio-capture", "service-not-allowed",
               "network", "no-speech", "aborted", "other"}

\* What a final transcript says: an emergency phrase, a safe-spot phrase,
\* both ("help me find a safe spot"), or anything else
TranscriptClasses == {"emergency", "safespot", "both", "chat"}

\* Trimmed lengths of the transcripts delivered by the engine
TranscriptLengths == {2, 3}

VARIABLES
    \* ---- VoiceQueueService ----
    queue,          \* queue: waiting job ids, in order
    vqIsProcessing, \* isProcessing (the busy flag of the queue)
    currentAudio,   \* currentAudio: 0 = null, else the job whose Audio it is
    loops,          \* running invocations of processQueue: set of [job, pc]
    jobType,        \* VoiceJob.type of every job created so far
    future,         \* state of the promise returned by queueVoice
    settles,        \* number of resolve()/reject() calls made on each job
    nextId,         \* next job id (generateJobId)
    execOrder,      \* history: jobs in the order executeVoiceJob began
    pendingAtEnqueue, \* history: jobs whose promise was pending when a job was enqueued
    idleAtEnqueue,  \* history: the busy flag was false when the job was enqueued
    flushed,        \* history: jobs that were executing when clearQueue was called
    cleaned,        \* history: VoiceQueueService.cleanup() has been called
    \* ---- VoiceAssistantService ----
    isListening,
    isProcessing,
    isRecognitionActive,
    isHandlingSafetySpot,
    recognition,    \* this.recognition is not null
    callbacks,      \* registered callbacks: subset of {"spot", "emergency"}
    restartTimeout, \* the 500 ms timer of restartListening is pending
    safetyCheckTimeout, \* NoTimer, or the time left on the safety-check timer
    safetyTimers,   \* safety-check timers pending in the host's timer table
    sinceActivity,  \* Date.now() - lastActivityTime, capped at the interval
    timers,         \* pending anonymous setTimeout callbacks: set of [kind, tid]
    pt,             \* suspended processTranscript calls: set of [tid, stage, job]
    sc,             \* suspended performSafetyCheck calls: set of [stage, job]
    smartWaits,     \* smartRestart is polling waitForSpeechToComplete
    spotCalls,      \* safe-spot callback promises not yet settled
    emergencyCalls, \* emergency callback promises not yet settled
    context,        \* this.context: the fields the safety check reads
    safetyMessage,  \* the message generated for the current context
                    \* (NoMessage: none since the context was last set)
    \* ---- VoiceMicrophone ----
    announcing,     \* suspended announceNavigation calls: the jobs they await
    direct,         \* utterances the component passed to speechSynthesis
                    \* itself: the jobs whose message they speak
    \* ---- browser ----
    engine,         \* state of the current recognition object's engine
    staleEngines,   \* replaced recognition objects whose end event is pending
    \* ---- history ----
    event,          \* what the last step did to a transcript (see NoEvent)
    nTranscripts,   \* number of transcripts accepted by onresult
    fatal,          \* a fatal engine error was raised since the last startListening
    stale,          \* transcripts whose LLM request was in flight at a teardown
    nEvents,        \* number of stimuli of the assistant so far
    flushes         \* number of clearQueue()/cleanup() calls

qvars == <<queue, vqIsProcessing, currentAudio, loops, jobType, future,
           settles, nextId, execOrder, pendingAtEnqueue, idleAtEnqueue,
           flushed, cleaned>>

avars == <<isListening, isProcessing, isRecognitionActive,
           isHandlingSafetySpot, recognition, callbacks, restartTimeout,
           safetyCheckTimeout, safetyTimers, sinceActivity, timers, pt, sc,
           smartWaits,
           spotCalls, emergencyCalls, announcing, direct, engine,
           staleEngines, event,
           nTranscripts, fatal, stale, context, safetyMessage>>

counters == <<nEvents, flushes>>

vars == <<qvars, avars, counters>>

-----------------------------------------------------------------------------
(* The conversation context and the text of the safety check *)

\* ConversationContext (lines 13-33), the two fields the safety check
\* reads.  An optional field is the empty set when it is undefined and a
\* singleton otherwise.
Scores == {0, 1, 30, 59, 60, 61, 100}
DangerZoneCounts == 0..MaxDangerZones
Contexts ==
    [safetyScore : {{}} \cup {{v} : v \in Scores},
     routeDetails : {{}} \cup {{[dangerZones |-> n]} : n \in DangerZoneCounts}]
EmptyContext == [safetyScore |-> {}, routeDetails |-> {}]

\* Partial<ConversationContext>: any subset of the keys
ContextKeys == {"safetyScore", "routeDetails"}
PartialContexts ==
    {[k \in K |-> c[k]] : K \in SUBSET ContextKeys, c \in Contexts}

\* the value of an optional field that is set
The(opt) == CHOOSE v \in opt : TRUE

\* JavaScript truthiness of an optional number
Truthy(opt) == opt # {} /\ The(opt) # 0

NoMessage == "none"
LowScoreWarning ==
    "Hey, are you safe? You're in an area with lower safety scores."
DangerZoneWarning ==
    "Hey, are you safe? I noticed there are some areas requiring extra attention on your route."
messages ==
    << "Hey, are you safe?",
       "Just checking in - how are you doing?",
       "Everything okay? I haven't heard from you in a while.",
       "Quick safety check - are you alright?",
       "Hey there, just making sure you're doing well." >>
AllSafetyMessages ==
    {LowScoreWarning, DangerZoneWarning} \cup {messages[i] : i \in 1..5}

\* Math.floor(Math.random() * messages.length)
RandomIndexes == 0..(Len(messages) - 1)

\* generateSafetyCheckMessage (lines 483-506); r is the random index
generateSafetyCheckMessage(ctx, r) ==
    IF Truthy(ctx.safetyScore) /\ The(ctx.safetyScore) < 60
    THEN LowScoreWarning
    ELSE IF ctx.routeDetails # {} /\ The(ctx.routeDetails).dangerZones > 0
    THEN DangerZoneWarning
    ELSE messages[r + 1]

-----------------------------------------------------------------------------
(* The state as one record, so that handlers compose as functions *)

\* The trace of the step just taken, for the properties:
\*   accepted    trimmed length of the transcript onresult passed to
\*               processTranscript in this step (0: none)
\*   wasBusy     isProcessing when that transcript arrived
\*   reset       a branch of processTranscript or performSafetyCheck ran
\*               its closing "isProcessing = false" in this step
\*   by          the transcript whose processing ran that reset (0: a safety
\*               check)
\*   exit        the branch of processTranscript whose last statement ran
\*               in this step ("none": no branch completed)
\*   tid         the transcript that branch belongs to
\*   restarts    number of restartListening() calls made by that branch
\*   listening   isListening when the branch completed
\*   check       what the safety-check timer's callback did in this step:
\*               "none" (it did not run), "cancelled" (not listening),
\*               "spoken" (a safety-check job was enqueued) or "rearmed"
\*   start       what recognition.start() did when the callback of
\*               restartListening's timer called it in this step: "none"
\*               (not called), "started", "already" (it threw "already
\*               started") or "failed" (it threw something else)
\*   cmd         the branch handleSpecialCommands took in this step: "none"
\*               (not called, or no pattern matched), "emergency",
\*               "emergencyNoCallback", "spotBusy" (a request is already
\*               in progress), "spot", "spotNoCallback"
\*   llm         number of getGeminiResponse calls made in this step
\*   stopped     stopListening ran in this step
\*   error       the error the engine raised in this step ("none": no
\*               error event)
\*   both        the transcript accepted in this step matches an emergency
\*               pattern and a safe-spot pattern
\*   spotMsg     the message enqueued in this step by the handlers chained
\*               on the safe-spot callback's promise: "none", "updated"
\*               (then) or "apology" (catch)
\*   deferred    the callback of restartListening's timer ran in this step
\*               and skipped recognition.start() only because isSpeaking()
\*               was true
NoEvent == [accepted |-> 0, wasBusy |-> FALSE, reset |-> FALSE, by |-> 0,
            exit |-> "none", tid |-> 0, restarts |-> 0, listening |-> FALSE,
            check |-> "none", start |-> "none", cmd |-> "none", llm |-> 0,
            stopped |-> FALSE, error |-> "none", both |-> FALSE, spotMsg |-> "none", deferred |-> FALSE]

World ==
    [queue |-> queue, vqIsProcessing |-> vqIsProcessing,
     currentAudio |-> currentAudio, loops |-> loops, jobType |-> jobType,
     future |-> future, settles |-> settles, nextId |-> nextId,
     execOrder |-> execOrder, pendingAtEnqueue |-> pendingAtEnqueue,
     idleAtEnqueue |-> idleAtEnqueue,
     flushed |-> flushed, cleaned |-> cleaned,
     isListening |-> isListening, isProcessing |-> isProcessing,
     isRecognitionActive |-> isRecognitionActive,
     isHandlingSafetySpot |-> isHandlingSafetySpot,
     recognition |-> recognition, callbacks |-> callbacks,
     restartTimeout |-> restartTimeout,
     safetyCheckTimeout |-> safetyCheckTimeout,
     safetyTimers |-> safetyTimers,
     sinceActivity |-> sinceActivity, timers |-> timers, pt |-> pt, sc |-> sc,
     smartWaits |-> smartWaits, spotCalls |-> spotCalls,
     emergencyCalls |-> emergencyCalls, announcing |-> announcing,
     direct |-> direct, engine |-> engine,
     staleEngines |-> staleEngines, event |-> NoEvent,
     nTranscripts |-> nTranscripts, fatal |-> fatal, stale |-> stale,
     context |-> context, safetyMessage |-> safetyMessage]

SetWorld(s) ==
    /\ queue' = s.queue
    /\ vqIsProcessing' = s.vqIsProcessing
    /\ currentAudio' = s.currentAudio
    /\ loops' = s.loops
    /\ jobType' = s.jobType
    /\ future' = s.future
    /\ settles' = s.settles
    /\ nextId' = s.nextId
    /\ execOrder' = s.execOrder
    /\ pendingAtEnqueue' = s.pendingAtEnqueue
    /\ idleAtEnqueue' = s.idleAtEnqueue
    /\ flushed' = s.flushed
    /\ cleaned' = s.cleaned
    /\ isListening' = s.isListening
    /\ isProcessing' = s.isProcessing
    /\ isRecognitionActive' = s.isRecognitionActive
    /\ isHandlingSafetySpot' = s.isHandlingSafetySpot
    /\ recognition' = s.recognition
    /\ callbacks' = s.callbacks
    /\ restartTimeout' = s.restartTimeout
    /\ safetyCheckTimeout' = s.safetyCheckTimeout
    /\ safetyTimers' = s.safetyTimers
    /\ sinceActivity' = s.sinceActivity
    /\ timers' = s.timers
    /\ pt' = s.pt
    /\ sc' = s.sc
    /\ smartWaits' = s.smartWaits
    /\ spotCalls' = s.spotCalls
    /\ emergencyCalls' = s.emergencyCalls
    /\ announcing' = s.announcing
    /\ direct' = s.direct
    /\ engine' = s.engine
    /\ staleEngines' = s.staleEngines
    /\ event' = s.event
    /\ nTranscripts' = s.nTranscripts
    /\ fatal' = s.fatal
    /\ context' = s.context
    /\ safetyMessage' = s.safetyMessage
    /\ stale' = s.stale

(* VoiceQueueService *)

getPriorityReversed(type) ==
    CASE type = "safety-check" -> 3
      [] type = "navigation" -> 2
      [] type = "conversation" -> 1
      [] OTHER -> 1

getPriority(type) ==
    CASE type = "safety-check" -> 1
      [] type = "navigation" -> 2
      [] type = "conversation" -> 3
      [] OTHER -> 3

\* Array.prototype.sort with (a, b) => a.priority - b.priority is stable:
\* insertion of each element behind the elements of lower or equal priority
RECURSIVE InsertByPriority(_, _, _)
InsertByPriority(sorted, j, jt) ==
    IF sorted = <<>> THEN <<j>>
    ELSE IF getPriority(jt[j]) < getPriority(jt[Head(sorted)])
         THEN <<j>> \o sorted
         ELSE <<Head(sorted)>> \o InsertByPriority(Tail(sorted), j, jt)

SortByPriorityNoSort(q, jt) == q

RECURSIVE SortByPriority(_, _)
SortByPriority(q, jt) ==
    IF q = <<>> THEN <<>>
    ELSE InsertByPriority(SortByPriority(SubSeq(q, 1, Len(q) - 1), jt),
                          q[Len(q)], jt)

\* job.resolve() / job.reject(error): a promise settles at most once
SettleJob(s, id, outcome) ==
    [s EXCEPT !.future[id] = IF @ = "pending" THEN outcome ELSE @,
              !.settles[id] = @ + 1]

\* stopCurrentAudio: pause the current Audio element, drop the reference,
\* cancel browser speech synthesis
StopCurrentAudio(s) ==
    LET pauseAudio(l) ==
            IF s.currentAudio # 0 /\ l.job = s.currentAudio
            THEN [l EXCEPT !.pc = IF @ = "playing" THEN "stopped"
                                  ELSE IF @ = "loading" THEN "abort" ELSE @]
            ELSE l
        cancelSynth(l) ==
            [l EXCEPT !.pc = IF @ = "fallback" THEN "canceled" ELSE @]
    IN  [s EXCEPT !.currentAudio = 0,
                  !.direct = {},
                  !.loops = {cancelSynth(pauseAudio(l)) : l \in s.loops}]

\* executeVoiceJob up to its first suspension: stopCurrentAudio, then the
\* ElevenLabs request is sent
BeginExecute(s, id) ==
    LET s1 == StopCurrentAudio(s)
    IN  [s1 EXCEPT !.loops = @ \cup {[job |-> id, pc |-> "fetch"]},
                   !.execOrder = Append(@, id)]

\* One turn of the while loop of processQueue run by loop l (l is removed):
\* shift the next job and execute it, or leave through finally
LoopTurn(s, l) ==
    LET s0 == [s EXCEPT !.loops = @ \ {l}]
    IN  IF Len(s0.queue) > 0
        THEN BeginExecute([s0 EXCEPT !.queue = Tail(@)], Head(s0.queue))
        ELSE [s0 EXCEPT !.vqIsProcessing = FALSE]

\* the early return of processQueue
ProcessQueueGuard(s) == s.vqIsProcessing \/ Len(s.queue) = 0

ProcessQueueNoFlag(s) ==
    IF ProcessQueueGuard(s) THEN s
    ELSE BeginExecute([s EXCEPT !.queue = Tail(@)], Head(s.queue))

\* processQueue, called from queueVoice: runs synchronously up to the
\* first await inside executeVoiceJob
ProcessQueue(s) ==
    IF ProcessQueueGuard(s) THEN s
    ELSE BeginExecute([s EXCEPT !.vqIsProcessing = TRUE, !.queue = Tail(@)],
                      Head(s.queue))

\* queueVoice lines 58-61: start processing if not already running
StartIfIdle(s) == IF ~s.vqIsProcessing THEN ProcessQueue(s) ELSE s

\* queueVoice(text, type)
QueueVoice(s, type) ==
    LET id == s.nextId
        jt == [s.jobType EXCEPT ![id] = type]
        s1 == [s EXCEPT !.nextId = id + 1,
                        !.jobType = jt,
                        !.future[id] = "pending",
                        !.pendingAtEnqueue[id] =
                            {j \in JobIds : s.future[j] = "pending"},
                        !.idleAtEnqueue[id] = ~s.vqIsProcessing,
                        !.queue = SortByPriority(Append(s.queue, id), jt)]
    IN  StartIfIdle(s1)

PrimaryFailedEndsLoop(s, l) ==
    IF s.jobType[l.job] = "navigation"
    THEN LET cancelSynth(k) ==
                 [k EXCEPT !.pc = IF @ = "fallback" THEN "canceled" ELSE @]
         IN  [s EXCEPT !.loops = {cancelSynth(k) : k \in s.loops \ {l}}
                                  \cup {[l EXCEPT !.pc = "fallback"]}]
    ELSE [SettleJob(s, l.job, "failed")
             EXCEPT !.loops = s.loops \ {l}, !.vqIsProcessing = FALSE]

PrimaryFailedNoFallback(s, l) ==
    [SettleJob(s, l.job, "failed")
        EXCEPT !.loops = (s.loops \ {l}) \cup {[l EXCEPT !.pc = "delay"]}]

\* The catch block of executeVoiceJob followed by the catch block of
\* processQueue: primary synthesis or playback of l.job failed
PrimaryFailed(s, l) ==
    IF s.jobType[l.job] = "navigation"
    THEN \* textToSpeechBrowser: speechSynthesis.cancel(), then speak
         LET cancelSynth(k) ==
                 [k EXCEPT !.pc = IF @ = "fallback" THEN "canceled" ELSE @]
         IN  [s EXCEPT !.direct = {},
                       !.loops = {cancelSynth(k) : k \in s.loops \ {l}}
                                  \cup {[l EXCEPT !.pc = "fallback"]}]
    ELSE [SettleJob(s, l.job, "failed")
             EXCEPT !.loops = (s.loops \ {l}) \cup {[l EXCEPT !.pc = "delay"]}]

\* executeVoiceJob returned: job.resolve(), then the inter-job delay
JobDone(s, l) ==
    [SettleJob(s, l.job, "resolved")
        EXCEPT !.loops = (s.loops \ {l}) \cup {[l EXCEPT !.pc = "delay"]}]

\* executeVoiceJob threw out of the fallback: job.reject(error), then delay
JobFailed(s, l) ==
    [SettleJob(s, l.job, "failed")
        EXCEPT !.loops = (s.loops \ {l}) \cup {[l EXCEPT !.pc = "delay"]}]

\* the forEach of clearQueue: reject(new Error("Voice queue cleared"))
RECURSIVE RejectAll(_, _)
RejectAll(s, q) ==
    IF q = <<>> THEN s
    ELSE RejectAll(SettleJob(s, Head(q), "cleared"), Tail(q))

ClearQueueKeepsJobs(s) ==
    LET s1 == RejectAll(s, s.queue)
        s2 == [s1 EXCEPT !.flushed = @ \cup {l.job : l \in
                                      {k \in s.loops : k.pc # "delay"}}]
    IN  StopCurrentAudio(s2)

\* clearQueue: reject every waiting job, empty the queue, stop the audio
ClearQueue(s) ==
    LET s1 == RejectAll(s, s.queue)
        s2 == [s1 EXCEPT !.queue = <<>>,
                         !.flushed = @ \cup {l.job : l \in
                                      {k \in s.loops : k.pc # "delay"}}]
    IN  StopCurrentAudio(s2)

\* VoiceQueueService.cleanup: clearQueue(), stopCurrentAudio(),
\* isProcessing = false
Cleanup(s) ==
    [StopCurrentAudio(ClearQueue(s)) EXCEPT !.vqIsProcessing = FALSE,
                                            !.cleaned = TRUE]

\* isSpeaking: the busy flag, or a current Audio element that is not paused
IsSpeaking(s) ==
    \/ s.vqIsProcessing
    \/ /\ s.currentAudio # 0
       /\ \E l \in s.loops : l.job = s.currentAudio
                             /\ l.pc \in {"loading", "playing"}


-----------------------------------------------------------------------------
(* VoiceAssistantService *)

\* the transcript's processing called restartListening()
LogRestart(w, tid) == [w EXCEPT !.event.restarts = @ + 1]

\* the last statement of a branch of the transcript's processing has run
LogDone(w, tid, branch) ==
    [w EXCEPT !.event.exit = branch, !.event.tid = tid,
              !.event.listening = w.isListening]

\* a branch runs its closing "this.isProcessing = false"
ResetProcessing(w, tid) ==
    [w EXCEPT !.isProcessing = FALSE, !.event.reset = TRUE, !.event.by = tid]

\* if (this.safetyCheckTimeout) { clearTimeout(...); ... = null }
ClearSafetyCheckTimeout(w) ==
    IF w.safetyCheckTimeout = NoTimer THEN w
    ELSE [w EXCEPT !.safetyCheckTimeout = NoTimer, !.safetyTimers = @ - 1]

StartSafetyCheckKeepsOldTimer(w) ==
    IF ~w.isListening
    THEN w
    ELSE [w EXCEPT !.safetyCheckTimeout = SAFETY_CHECK_INTERVAL,
                   !.safetyTimers = @ + 1]

\* startSafetyCheck: clear the timer, arm it again if listening
StartSafetyCheck(w) ==
    LET w1 == ClearSafetyCheckTimeout(w)
    IN  IF ~w1.isListening
        THEN w1
        ELSE [w1 EXCEPT !.safetyCheckTimeout = SAFETY_CHECK_INTERVAL,
                        !.safetyTimers = @ + 1]

\* restartListening: clear the restart timer and set it again (500 ms)
RestartListening(w) == [w EXCEPT !.restartTimeout = TRUE]

\* recognition.stop(): the engine, if started, will deliver its end event
RecognitionStop(w) ==
    [w EXCEPT !.engine = IF @ = "running" THEN "stopping"
                         ELSE IF @ = "starting" THEN "ending"
                         ELSE @]

\* smartRestart: wait for the speech to complete, then restartListening
SmartRestart(w) ==
    IF IsSpeaking(w) THEN [w EXCEPT !.smartWaits = TRUE]
    ELSE RestartListening(w)

\* emergencyPatterns.some(...) and safetySpotPatterns.some(...) (lines
\* 515-524 and 547-568) for a transcript of the given class
IsEmergencyRequest(cls) == cls \in {"emergency", "both"}
IsSafetySpotRequest(cls) == cls \in {"safespot", "both"}

\* number of voice jobs handleSpecialCommands enqueues for a transcript
JobsForCommand(w, cls) ==
    IF IsEmergencyRequest(cls) THEN 1
    ELSE IF IsSafetySpotRequest(cls)
    THEN IF ~w.isHandlingSafetySpot /\ "spot" \notin w.callbacks THEN 2 ELSE 1
    ELSE 0

HandleEmergencySilentWithoutCallback(w, throws) ==
    LET took(branch) == [w EXCEPT !.event.cmd = branch]
    IN  IF "emergency" \in w.callbacks
        THEN LET w1 == QueueVoice(took("emergency"), "conversation")
             IN  IF throws
                 THEN [w |-> w1, handled |-> FALSE, threw |-> TRUE]
                 ELSE [w |-> [w1 EXCEPT !.emergencyCalls = @ + 1],
                       handled |-> TRUE, threw |-> FALSE]
        ELSE [w |-> took("emergencyNoCallback"),
              handled |-> TRUE, threw |-> FALSE]

\* handleSpecialCommands, the emergency branch (lines 525-544)
HandleEmergency(w, throws) ==
    LET took(branch) == [w EXCEPT !.event.cmd = branch]
    IN  IF "emergency" \in w.callbacks
        THEN LET w1 == QueueVoice(took("emergency"), "conversation")
             IN  IF throws
                 THEN [w |-> w1, handled |-> FALSE, threw |-> TRUE]
                 ELSE [w |-> [w1 EXCEPT !.emergencyCalls = @ + 1],
                       handled |-> TRUE, threw |-> FALSE]
        ELSE [w |-> QueueVoice(took("emergencyNoCallback"), "conversation"),
              handled |-> TRUE, threw |-> FALSE]

\* handleSpecialCommands, the safe-spot branch (lines 569-634)
HandleSafetySpot(w, throws) ==
    LET took(branch) == [w EXCEPT !.event.cmd = branch]
    IN  IF w.isHandlingSafetySpot
        THEN [w |-> QueueVoice(took("spotBusy"), "navigation"),
              handled |-> TRUE, threw |-> FALSE]
        ELSE IF "spot" \in w.callbacks
        THEN LET w1 == QueueVoice([took("spot") EXCEPT
                                      !.isHandlingSafetySpot = TRUE],
                                  "navigation")
             IN  IF throws
                 THEN [w |-> w1, handled |-> FALSE, threw |-> TRUE]
                 ELSE [w |-> [w1 EXCEPT !.spotCalls = @ + 1],
                       handled |-> TRUE, threw |-> FALSE]
        ELSE LET w1 == QueueVoice([took("spotNoCallback") EXCEPT
                                      !.isHandlingSafetySpot = TRUE],
                                  "navigation")
             IN  [w |-> [QueueVoice(w1, "conversation")
                             EXCEPT !.isHandlingSafetySpot = FALSE],
                  handled |-> TRUE, threw |-> FALSE]

HandleSpecialCommandsSpotFirst(w, cls, throws) ==
    IF IsSafetySpotRequest(cls) THEN HandleSafetySpot(w, throws)
    ELSE IF IsEmergencyRequest(cls) THEN HandleEmergency(w, throws)
    ELSE [w |-> w, handled |-> FALSE, threw |-> FALSE]

\* handleSpecialCommands(transcript): the new state, whether the command
\* was handled (return true) and whether the registered callback threw
\* synchronously (throws is the behaviour of the host's callback)
HandleSpecialCommands(w, cls, throws) ==
    IF IsEmergencyRequest(cls) THEN HandleEmergency(w, throws)
    ELSE IF IsSafetySpotRequest(cls) THEN HandleSafetySpot(w, throws)
    ELSE [w |-> w, handled |-> FALSE, threw |-> FALSE]

\* the handlers chained on the promise of onNearestSafetySpotRequest
\* (lines 599-621): then enqueues "Route updated" when it resolved (ok),
\* catch enqueues the apology when it rejected, finally resets the flag
SafetySpotSettled(w, ok) ==
    LET w1 == [w EXCEPT !.spotCalls = @ - 1]
        w2 == IF ok
              THEN QueueVoice([w1 EXCEPT !.event.spotMsg = "updated"],
                              "navigation")
              ELSE w1
        w3 == IF ~ok
              THEN QueueVoice([w2 EXCEPT !.event.spotMsg = "apology"],
                              "navigation")
              ELSE w2
    IN  [w3 EXCEPT !.isHandlingSafetySpot = FALSE]

\* processTranscript, the catch block (lines 713-727)
CatchPath(w, tid) ==
    LET w1 == ResetProcessing(w, tid)
    IN  IF w1.isListening
        THEN [w1 EXCEPT !.timers = @ \cup {[kind |-> "errorPath", tid |-> tid]}]
        ELSE LogDone(w1, tid, "error")

\* processTranscript, the special-command exit (lines 664-673)
CommandExit(w, tid) ==
    LET w1 == ResetProcessing(w, tid)
    IN  IF w1.isListening
        THEN LogDone(StartSafetyCheck(LogRestart(RestartListening(w1), tid)),
                     tid, "command")
        ELSE LogDone(w1, tid, "command")

\* processTranscript, the exit after a null reply (lines 684-691)
NoResponseExit(w, tid) ==
    LogDone(StartSafetyCheck(ResetProcessing(w, tid)), tid, "null")

\* processTranscript, the callback passed to waitForSpeechToComplete().then
\* (lines 700-712)
SpeechCompleteExit(w, tid) ==
    LET w1 == ResetProcessing(w, tid)
    IN  IF w1.isListening
        THEN LogDone(StartSafetyCheck(LogRestart(RestartListening(w1), tid)),
                     tid, "reply")
        ELSE LogDone(w1, tid, "reply")

ProcessTranscriptCommandsToLLM(w, tid, cls, throws) ==
    IF w.isProcessing THEN w ELSE
    LET w1 == [ClearSafetyCheckTimeout(w) EXCEPT
                        !.isProcessing = TRUE,
                        !.sinceActivity = 0,
                        !.nTranscripts = tid]
        r == HandleSpecialCommands(w1, cls, throws)
    IN  IF r.threw THEN CatchPath(r.w, tid)
        ELSE LET w2 == IF r.w.recognition /\ r.w.isRecognitionActive
                       THEN RecognitionStop(r.w) ELSE r.w
             IN  [w2 EXCEPT !.event.llm = @ + 1,
                            !.pt = @ \cup
                      {[tid |-> tid, stage |-> "llm", job |-> 0]}]

\* processTranscript(transcript) up to its first await (lines 641-682)
ProcessTranscript(w, tid, cls, throws) ==
    IF w.isProcessing THEN w ELSE
    LET w1 == [ClearSafetyCheckTimeout(w) EXCEPT
                        !.isProcessing = TRUE,
                        !.sinceActivity = 0,
                        !.nTranscripts = tid]
        r == HandleSpecialCommands(w1, cls, throws)
    IN  IF r.threw THEN CatchPath(r.w, tid)
        ELSE IF r.handled THEN CommandExit(r.w, tid)
        ELSE LET w2 == IF w1.recognition /\ w1.isRecognitionActive
                       THEN RecognitionStop(w1) ELSE w1
             IN  [w2 EXCEPT !.event.llm = @ + 1,
                            !.pt = @ \cup
                      {[tid |-> tid, stage |-> "llm", job |-> 0]}]

AcceptsTranscriptAnyLength(w, len) == ~w.isProcessing

\* recognition.onresult, the condition of line 205
AcceptsTranscript(w, len) == len > 2 /\ ~w.isProcessing

\* recognition.onresult for one final result (lines 203-209)
OnResult(w, tid, len, cls, throws) ==
    IF AcceptsTranscript(w, len)
    THEN ProcessTranscript([w EXCEPT !.event.accepted = len,
                                     !.event.both =
                                         /\ IsEmergencyRequest(cls)
                                         /\ IsSafetySpotRequest(cls),
                                     !.event.wasBusy = w.isProcessing],
                           tid, cls, throws)
    ELSE w

\* performSafetyCheck, the callback passed to
\* waitForSpeechToComplete().then (lines 456-465)
SafetySpeechComplete(w) ==
    StartSafetyCheck(ResetProcessing(w, 0))

\* performSafetyCheck, the catch block (lines 471-477)
SafetyCatch(w) ==
    StartSafetyCheck(ResetProcessing(w, 0))

PerformSafetyCheckIgnoresInterval(w) ==
    LET w1 == [w EXCEPT !.safetyCheckTimeout = NoTimer,
                        !.safetyTimers = @ - 1]
    IN  IF ~w1.isListening THEN [w1 EXCEPT !.event.check = "cancelled"]
        ELSE LET w2 == QueueVoice([w1 EXCEPT !.isProcessing = TRUE,
                                             !.event.check = "spoken"],
                                  "safety-check")
             IN  [w2 EXCEPT !.sc = @ \cup
                      {[stage |-> "speak", job |-> w1.nextId]}]

\* performSafetyCheck up to its await (lines 416-450)
PerformSafetyCheck(w) ==
    LET w1 == [w EXCEPT !.safetyCheckTimeout = NoTimer,
                        !.safetyTimers = @ - 1]
    IN  IF ~w1.isListening THEN [w1 EXCEPT !.event.check = "cancelled"]
        ELSE IF w1.sinceActivity >= SAFETY_CHECK_INTERVAL
        THEN LET w2 == QueueVoice([w1 EXCEPT !.isProcessing = TRUE,
                                             !.event.check = "spoken"],
                                  "safety-check")
             IN  [w2 EXCEPT !.sc = @ \cup
                      {[stage |-> "speak", job |-> w1.nextId]}]
        ELSE StartSafetyCheck([w1 EXCEPT !.event.check = "rearmed"])

\* the code that runs when the promise of job id settles: the rest of
\* processTranscript (lines 697-712, or the catch block) or of
\* performSafetyCheck (lines 452-465, or the catch block) awaiting it
AfterJobSettled(w, id) ==
    LET ps == {p \in w.pt : p.stage = "speak" /\ p.job = id}
        cs == {c \in w.sc : c.stage = "speak" /\ c.job = id}
    IN  IF ps # {}
        THEN LET p == CHOOSE x \in ps : TRUE
                 w1 == [w EXCEPT !.pt = @ \ {p}]
             IN  IF w.future[id] = "resolved"
                 THEN IF IsSpeaking(w1)
                      THEN [w1 EXCEPT !.pt = @ \cup {[p EXCEPT !.stage = "wait"]}]
                      ELSE SpeechCompleteExit(w1, p.tid)
                 ELSE CatchPath(w1, p.tid)
        ELSE IF cs # {}
        THEN LET c == CHOOSE x \in cs : TRUE
                 w1 == [w EXCEPT !.sc = @ \ {c}]
             IN  IF w.future[id] = "resolved"
                 THEN LET w2 == [w1 EXCEPT !.sinceActivity = 0]
                      IN  IF IsSpeaking(w2)
                          THEN [w2 EXCEPT !.sc = @ \cup
                                              {[c EXCEPT !.stage = "wait"]}]
                          ELSE SafetySpeechComplete(w2)
                 ELSE SafetyCatch(w1)
        ELSE w

\* VoiceMicrophone's announceNavigation (VoiceMicrophone.tsx lines 37-53)
\* up to its await: the assistant's announceNavigation (part_001 lines
\* 985-993) calls queueVoice(message, "navigation")
AnnounceNavigation(w) ==
    [QueueVoice(w, "navigation") EXCEPT !.announcing = @ \cup {w.nextId}]

\* the rest of VoiceMicrophone's announceNavigation when the promise of
\* job id settles: on rejection the catch block speaks the message with
\* window.speechSynthesis.speak (lines 42-50)
AfterAnnounceSettled(w, id) ==
    IF id \notin w.announcing THEN w
    ELSE IF w.future[id] = "resolved"
    THEN [w EXCEPT !.announcing = @ \ {id}]
    ELSE [w EXCEPT !.announcing = @ \ {id}, !.direct = @ \cup {id}]

\* run the continuations of every promise settled between w0 and w1
RECURSIVE RunSettled(_, _, _)
RunSettled(w0, w1, ids) ==
    IF ids = {} THEN w1
    ELSE LET id == CHOOSE i \in ids : \A k \in ids : i <= k
             w2 == IF w0.future[id] = "pending" /\ w1.future[id] # "pending"
                   THEN AfterAnnounceSettled(AfterJobSettled(w1, id), id)
                   ELSE w1
         IN  RunSettled(w0, w2, ids \ {id})

Settled(w0, w1) == RunSettled(w0, w1, JobIds)

\* stopListening (lines 367-382)
StopListening(w) ==
    LET w1 == [ClearSafetyCheckTimeout(w) EXCEPT
                        !.isListening = FALSE,
                        !.isRecognitionActive = FALSE,
                        !.restartTimeout = FALSE,
                        !.event.stopped = TRUE,
                        !.stale = @ \cup {p.tid : p \in
                                     {q \in w.pt : q.stage = "llm"}}]
    IN  IF w1.recognition THEN RecognitionStop(w1) ELSE w1

\* VoiceAssistantService.cleanup (lines 968-980)
AssistantCleanup(w) ==
    LET w1 == StopListening(w)
        \* the recognition object is dropped while its engine may still
        \* deliver an end event
        w2 == [w1 EXCEPT !.isRecognitionActive = FALSE,
                         !.isHandlingSafetySpot = FALSE,
                         !.restartTimeout = FALSE,
                         !.recognition = FALSE,
                         !.isProcessing = FALSE]
        w3 == Cleanup(w2)
    IN  Settled(w, w3)

\* startListening (lines 150-298); SpeechRecognition is supported
StartListening(w) ==
    IF w.isListening THEN w
    ELSE [w EXCEPT !.isListening = TRUE,
                   !.fatal = FALSE,
                   !.sinceActivity = 0,
                   !.recognition = TRUE,
                   !.staleEngines = IF w.engine = "idle" THEN @ ELSE @ + 1,
                   !.engine = "starting"]

\* forceRestartListening (lines 930-952), up to the setTimeout
ForceRestartListening(w) ==
    LET w1 == IF w.recognition THEN RecognitionStop(w) ELSE w
    IN  [w1 EXCEPT !.isRecognitionActive = FALSE,
                   !.restartTimeout = FALSE,
                   !.timers = @ \cup {[kind |-> "force", tid |-> 0]}]

\* recognition.onstart (lines 191-198)
OnStart(w) ==
    LET w1 == [w EXCEPT !.isRecognitionActive = TRUE]
    IN  IF w1.safetyCheckTimeout = NoTimer THEN StartSafetyCheck(w1) ELSE w1

\* recognition.onend (lines 269-287)
OnEnd(w) ==
    LET w1 == [w EXCEPT !.isRecognitionActive = FALSE]
    IN  IF w1.isListening /\ ~w1.isProcessing THEN SmartRestart(w1) ELSE w1

\* the errors after which listening stops for good
FatalErrors == {"not-allowed", "audio-capture", "service-not-allowed"}

OnErrorKeepsListening(w, kind) ==
    [w EXCEPT !.isRecognitionActive = FALSE,
              !.fatal = kind \in FatalErrors,
              !.isListening = IF kind = "not-allowed" THEN FALSE ELSE @]

OnErrorNoSpeechRestarts(w, kind) ==
    IF kind = "no-speech"
    THEN [w EXCEPT !.event.error = kind,
                   !.isRecognitionActive = FALSE,
                   !.timers = @ \cup {[kind |-> "other", tid |-> 0]}]
    ELSE [w EXCEPT !.event.error = kind, !.isRecognitionActive = FALSE]

\* recognition.onerror (lines 213-267)
OnError(w, kind) ==
    LET w0 == [w EXCEPT !.event.error = kind]
        w1 == IF kind \in FatalErrors
              THEN [w0 EXCEPT !.isRecognitionActive = FALSE, !.fatal = TRUE]
              ELSE w0
    IN  IF kind = "not-allowed"
        THEN [w1 EXCEPT !.isListening = FALSE, !.isRecognitionActive = FALSE]
        ELSE IF kind = "network"
        THEN [w1 EXCEPT !.isRecognitionActive = FALSE,
                        !.timers = @ \cup {[kind |-> "network", tid |-> 0]}]
        ELSE IF kind = "no-speech"
        THEN w1
        ELSE IF kind \in {"audio-capture", "service-not-allowed"}
        THEN [w1 EXCEPT !.isListening = FALSE, !.isRecognitionActive = FALSE]
        ELSE IF kind = "aborted"
        THEN [w1 EXCEPT !.isRecognitionActive = FALSE]
        ELSE LET w2 == [w1 EXCEPT !.isRecognitionActive = FALSE]
             IN  IF w2.isListening /\ ~w2.isProcessing
                 THEN [w2 EXCEPT !.timers = @ \cup
                                     {[kind |-> "other", tid |-> 0]}]
                 ELSE w2

RestartTimeoutFiredIgnoresListening(w, startError) ==
    LET w1 == [w EXCEPT !.restartTimeout = FALSE]
    IN  IF /\ w1.recognition
           /\ ~w1.isProcessing
           /\ ~w1.isRecognitionActive
           /\ ~IsSpeaking(w1)
        THEN IF w1.engine # "idle"
             THEN [w1 EXCEPT !.isRecognitionActive = TRUE,
                             !.event.start = "already"]
             ELSE IF startError
             THEN [w1 EXCEPT !.timers = @ \cup {[kind |-> "retry", tid |-> 0]},
                             !.event.start = "failed"]
             ELSE [w1 EXCEPT !.engine = "starting",
                             !.event.start = "started"]
        ELSE w1

RestartTimeoutFiredRetriesAlways(w, startError) ==
    LET w1 == [w EXCEPT !.restartTimeout = FALSE]
    IN  IF /\ w1.isListening
           /\ w1.recognition
           /\ ~w1.isProcessing
           /\ ~w1.isRecognitionActive
           /\ ~IsSpeaking(w1)
        THEN IF w1.engine # "idle"
             THEN [w1 EXCEPT !.timers = @ \cup {[kind |-> "retry", tid |-> 0]},
                             !.event.start = "already"]
             ELSE IF startError
             THEN [w1 EXCEPT !.timers = @ \cup {[kind |-> "retry", tid |-> 0]},
                             !.event.start = "failed"]
             ELSE [w1 EXCEPT !.engine = "starting",
                             !.event.start = "started"]
        ELSE w1

\* the callback of restartListening's timer (lines 308-361); startError is
\* true when recognition.start() throws something other than
\* "already started"
RestartTimeoutFired(w, startError) ==
    LET w1 == [w EXCEPT !.restartTimeout = FALSE]
    IN  IF /\ w1.isListening
           /\ w1.recognition
           /\ ~w1.isProcessing
           /\ ~w1.isRecognitionActive
           /\ ~IsSpeaking(w1)
        THEN IF w1.engine # "idle"
             THEN \* start() throws: recognition has already started
                  [w1 EXCEPT !.isRecognitionActive = TRUE,
                             !.event.start = "already"]
             ELSE IF startError
             THEN [w1 EXCEPT !.timers = @ \cup {[kind |-> "retry", tid |-> 0]},
                             !.event.start = "failed"]
             ELSE [w1 EXCEPT !.engine = "starting",
                             !.event.start = "started"]
        ELSE [w1 EXCEPT !.event.deferred =
                  /\ w1.isListening
                  /\ w1.recognition
                  /\ ~w1.isProcessing
                  /\ ~w1.isRecognitionActive
                  /\ IsSpeaking(w1)]

\* the callbacks of the anonymous timers
TimerFired(w, t) ==
    LET w1 == [w EXCEPT !.timers = @ \ {t}]
    IN  CASE t.kind = "network" ->
               \* lines 233-237
               IF w1.isListening /\ ~w1.isProcessing
               THEN RestartListening(w1) ELSE w1
          [] t.kind = "other" ->
               \* line 264
               RestartListening(w1)
          [] t.kind = "retry" ->
               \* lines 342-350
               IF w1.isListening /\ ~w1.isProcessing /\ ~w1.isRecognitionActive
               THEN RestartListening(w1) ELSE w1
          [] t.kind = "errorPath" ->
               \* lines 721-725
               LogDone(StartSafetyCheck(
                           LogRestart(RestartListening(w1), t.tid)),
                       t.tid, "error")
          [] t.kind = "force" ->
               \* lines 947-951
               IF w1.isListening THEN StartListening(w1) ELSE w1

-----------------------------------------------------------------------------
Constructed ==
    /\ queue = <<>>
    /\ vqIsProcessing = FALSE
    /\ currentAudio = 0
    /\ loops = {}
    /\ jobType = [j \in JobIds |-> "none"]
    /\ future = [j \in JobIds |-> "none"]
    /\ settles = [j \in JobIds |-> 0]
    /\ nextId = 1
    /\ execOrder = <<>>
    /\ pendingAtEnqueue = [j \in JobIds |-> {}]
    /\ idleAtEnqueue = [j \in JobIds |-> FALSE]
    /\ flushed = {}
    /\ cleaned = FALSE
    /\ isListening = FALSE
    /\ isProcessing = FALSE
    /\ isRecognitionActive = FALSE
    /\ isHandlingSafetySpot = FALSE
    /\ recognition = FALSE
    /\ callbacks = {}
    /\ restartTimeout = FALSE
    /\ safetyCheckTimeout = NoTimer
    /\ safetyTimers = 0
    /\ sinceActivity = 0
    /\ timers = {}
    /\ pt = {}
    /\ sc = {}
    /\ smartWaits = FALSE
    /\ spotCalls = 0
    /\ emergencyCalls = 0
    /\ announcing = {}
    /\ direct = {}
    /\ engine = "idle"
    /\ staleEngines = 0
    /\ event = NoEvent
    /\ nTranscripts = 0
    /\ fatal = FALSE
    /\ stale = {}
    /\ safetyMessage = NoMessage
    /\ nEvents = 0
    /\ flushes = 0

\* the state after construction: context = {} (line 98)
Init ==
    /\ Constructed
    /\ context = EmptyContext

\* the state after construction and one updateContext call
InitMessage ==
    /\ Constructed
    /\ context \in Contexts

\* ---- events of the drain loops ----
\* the ElevenLabs response is ok: new Audio(url), play()
FetchOk(l) ==
    /\ l.pc = "fetch"
    /\ SetWorld([World EXCEPT !.currentAudio = l.job,
                     !.loops = (@ \ {l}) \cup {[l EXCEPT !.pc = "loading"]}])

\* the ElevenLabs request fails or the response is not ok
FetchFail(l) ==
    /\ l.pc = "fetch"
    /\ SetWorld(Settled(World, PrimaryFailed(World, l)))

\* the play() promise resolves: sound is produced
PlayStarts(l) ==
    /\ l.pc = "loading"
    /\ SetWorld([World EXCEPT
                     !.loops = (@ \ {l}) \cup {[l EXCEPT !.pc = "playing"]}])

\* the play() promise rejects (autoplay policy, or AbortError after a
\* pause): reject, currentAudio is kept
PlayRejects(l) ==
    /\ l.pc \in {"loading", "abort"}
    /\ SetWorld(Settled(World, PrimaryFailed(World, l)))

\* audio.onended: currentAudio = null, resolve
AudioEnded(l) ==
    /\ l.pc = "playing"
    /\ SetWorld(Settled(World, JobDone([World EXCEPT !.currentAudio = 0], l)))

\* audio.onerror: currentAudio = null, reject
AudioError(l) ==
    /\ l.pc \in {"loading", "playing"}
    /\ SetWorld(Settled(World,
                        PrimaryFailed([World EXCEPT !.currentAudio = 0], l)))

\* utterance.onend
FallbackEnd(l) ==
    /\ l.pc \in {"fallback", "canceled"}
    /\ SetWorld(Settled(World, JobDone(World, l)))

\* utterance.onerror, or speechSynthesis missing from window
FallbackError(l) ==
    /\ l.pc \in {"fallback", "canceled"}
    /\ SetWorld(Settled(World, JobFailed(World, l)))

\* the 100 ms delay is over
DelayDone(l) ==
    /\ l.pc = "delay"
    /\ SetWorld(LoopTurn(World, l))

LoopStep ==
    /\ UNCHANGED counters
    /\ \E l \in loops :
        \/ FetchOk(l)
        \/ FetchFail(l)
        \/ PlayStarts(l)
        \/ PlayRejects(l)
        \/ AudioEnded(l)
        \/ AudioError(l)
        \/ FallbackEnd(l)
        \/ FallbackError(l)
        \/ DelayDone(l)

\* ---- calls made on the queue itself ----
CallQueueVoice(type) ==
    /\ nextId <= MaxJobs
    /\ SetWorld(QueueVoice(World, type))
    /\ UNCHANGED counters

CallClearQueue ==
    /\ flushes < MaxFlushes
    /\ flushes' = flushes + 1
    /\ SetWorld(Settled(World, ClearQueue(World)))
    /\ UNCHANGED nEvents

CallCleanup ==
    /\ flushes < MaxFlushes
    /\ flushes' = flushes + 1
    /\ SetWorld(Settled(World, Cleanup(World)))
    /\ UNCHANGED nEvents

\* ---- calls made on the assistant by the host ----
\* initialize() / startListening()
CallStartListening ==
    /\ ~isListening
    /\ nEvents < MaxEvents
    /\ nEvents' = nEvents + 1
    /\ SetWorld(StartListening(World))
    /\ UNCHANGED flushes

CallStopListening ==
    /\ nEvents < MaxEvents
    /\ nEvents' = nEvents + 1
    /\ SetWorld(StopListening(World))
    /\ UNCHANGED flushes

CallAssistantCleanup ==
    /\ nEvents < MaxEvents
    /\ flushes < MaxFlushes
    /\ nEvents' = nEvents + 1
    /\ flushes' = flushes + 1
    /\ SetWorld(AssistantCleanup(World))

CallForceRestartListening ==
    /\ nEvents < MaxEvents
    /\ nEvents' = nEvents + 1
    /\ SetWorld(ForceRestartListening(World))
    /\ UNCHANGED flushes

\* setCallbacks({onNearestSafetySpotRequest, onEmergencyAlertRequest})
CallSetCallbacks ==
    /\ callbacks = {}
    /\ SetWorld([World EXCEPT !.callbacks = {"spot", "emergency"}])
    /\ UNCHANGED counters

\* announceNavigation(message): queueVoice(message, "navigation")
CallAnnounceNavigation ==
    /\ nextId <= MaxSpeech
    /\ nEvents < MaxEvents
    /\ nEvents' = nEvents + 1
    /\ SetWorld(AnnounceNavigation(World))
    /\ UNCHANGED flushes

\* ---- events of the recognition engine ----
EngineStarted ==
    /\ engine = "starting"
    /\ SetWorld(OnStart([World EXCEPT !.engine = "running"]))
    /\ UNCHANGED counters

\* a final result with the given trimmed length and content; throws: the
\* callback it triggers throws synchronously
\* maxJobs bounds the jobs of the run
EngineResultUpTo(maxJobs, len, cls, throws) ==
    /\ engine \in {"running", "stopping"}
    /\ AcceptsTranscript(World, len)
    /\ nEvents < MaxEvents
    /\ nextId + JobsForCommand(World, cls) <= maxJobs + 1
    /\ nEvents' = nEvents + 1
    /\ SetWorld(OnResult(World, nTranscripts + 1, len, cls, throws))
    /\ UNCHANGED flushes

EngineResult(len, cls, throws) ==
    EngineResultUpTo(MaxSpeech, len, cls, throws)

EngineError(kind) ==
    /\ engine \in {"starting", "running"}
    /\ nEvents < MaxEvents
    /\ nEvents' = nEvents + 1
    /\ SetWorld(OnError([World EXCEPT !.engine = "ending"], kind))
    /\ UNCHANGED flushes

\* the end event: after stop(), after an error, or on the engine's own
EngineEnded ==
    /\ engine \in {"running", "stopping", "ending"}
    /\ SetWorld(OnEnd([World EXCEPT !.engine = "idle"]))
    /\ UNCHANGED counters

\* the end event of a recognition object that startListening has replaced
StaleEngineEnded ==
    /\ staleEngines > 0
    /\ SetWorld(OnEnd([World EXCEPT !.staleEngines = @ - 1]))
    /\ UNCHANGED counters

\* ---- timers ----
\* time passes; a safety-check timer that is due fires first
Tick ==
    /\ safetyCheckTimeout # 0
    /\ sinceActivity' = IF sinceActivity + TickMs > SAFETY_CHECK_INTERVAL
                        THEN SAFETY_CHECK_INTERVAL
                        ELSE sinceActivity + TickMs
    /\ safetyCheckTimeout' = IF safetyCheckTimeout = NoTimer THEN NoTimer
                             ELSE IF safetyCheckTimeout < TickMs THEN 0
                             ELSE safetyCheckTimeout - TickMs
    /\ \/ safetyCheckTimeout # NoTimer
       \/ sinceActivity < SAFETY_CHECK_INTERVAL
    /\ UNCHANGED <<qvars, isListening, isProcessing, isRecognitionActive,
                   isHandlingSafetySpot, recognition, callbacks,
                   restartTimeout, safetyTimers, timers, pt, sc, smartWaits,
                   spotCalls,
                   emergencyCalls, announcing, direct, engine,
                   staleEngines, nTranscripts,
                   fatal, stale, context, safetyMessage, counters>>
    /\ event' = NoEvent

\* the safety-check timer fires; maxJobs bounds the jobs of the run
SafetyCheckTimeoutFires(maxJobs) ==
    /\ safetyCheckTimeout = 0
    /\ \/ ~isListening
       \/ sinceActivity < SAFETY_CHECK_INTERVAL
       \/ nextId <= maxJobs
    /\ SetWorld(PerformSafetyCheck(World))
    /\ UNCHANGED counters

SafetyCheckTimeoutFired == SafetyCheckTimeoutFires(MaxSpeech)

RestartTimeoutFires(startError) ==
    /\ restartTimeout
    /\ startError => nEvents < MaxEvents
    /\ nEvents' = IF startError /\ RestartTimeoutFired(World, TRUE).timers # timers
                  THEN nEvents + 1 ELSE nEvents
    /\ SetWorld(RestartTimeoutFired(World, startError))
    /\ UNCHANGED flushes

TimerFires(t) ==
    /\ t \in timers
    /\ SetWorld(TimerFired(World, t))
    /\ UNCHANGED counters

\* an utterance the component spoke itself comes to its end
DirectUtteranceEnds(j) ==
    /\ j \in direct
    /\ SetWorld([World EXCEPT !.direct = @ \ {j}])
    /\ UNCHANGED counters

\* ---- polls of waitForSpeechToComplete that find the speech complete ----
SmartRestartResumes ==
    /\ smartWaits
    /\ ~IsSpeaking(World)
    /\ SetWorld(LET w == [World EXCEPT !.smartWaits = FALSE]
                IN  IF w.isListening /\ ~w.isProcessing
                    THEN RestartListening(w) ELSE w)
    /\ UNCHANGED counters

TranscriptSpeechComplete(p) ==
    /\ p \in pt
    /\ p.stage = "wait"
    /\ ~IsSpeaking(World)
    /\ SetWorld(SpeechCompleteExit([World EXCEPT !.pt = @ \ {p}], p.tid))
    /\ UNCHANGED counters

SafetyCheckSpeechComplete(c) ==
    /\ c \in sc
    /\ c.stage = "wait"
    /\ ~IsSpeaking(World)
    /\ SetWorld(SafetySpeechComplete([World EXCEPT !.sc = @ \ {c}]))
    /\ UNCHANGED counters

\* ---- responses of the LLM and of the host's callbacks ----
\* getGeminiResponse returns a reply: queueVoice(reply, "conversation")
GeminiReplies(p) ==
    /\ p \in pt
    /\ p.stage = "llm"
    /\ nextId <= MaxSpeech
    /\ SetWorld([QueueVoice(World, "conversation") EXCEPT
                    !.pt = (@ \ {p}) \cup
                           {[p EXCEPT !.stage = "speak", !.job = nextId]}])
    /\ UNCHANGED counters

\* getGeminiResponse returns null (no candidate, HTTP error, exception)
GeminiFails(p) ==
    /\ p \in pt
    /\ p.stage = "llm"
    /\ SetWorld(NoResponseExit([World EXCEPT !.pt = @ \ {p}], p.tid))
    /\ UNCHANGED counters

\* the promise of onNearestSafetySpotRequest settles (lines 599-621);
\* maxJobs bounds the jobs of the run
SafetySpotCallbackSettlesUpTo(maxJobs) ==
    /\ spotCalls > 0
    /\ nextId <= maxJobs + 1
    /\ \E ok \in BOOLEAN : SetWorld(SafetySpotSettled(World, ok))
    /\ UNCHANGED counters

SafetySpotCallbackSettles == SafetySpotCallbackSettlesUpTo(MaxSpeech)

\* the promise of onEmergencyAlertRequest settles: nothing awaits it
\* (line 534)
EmergencyCallbackSettles ==
    /\ emergencyCalls > 0
    /\ SetWorld([World EXCEPT !.emergencyCalls = @ - 1])
    /\ UNCHANGED counters

\* The queue on its own, driven directly through its public methods
NextQueue ==
    \/ \E type \in JobTypes : CallQueueVoice(type)
    \/ CallClearQueue
    \/ CallCleanup
    \/ LoopStep

SpecQueue == Init /\ [][NextQueue]_vars

\* The queue without flush: queueVoice calls and the events of the loop.
\* The browser delivers every pending response, audio event and timer.
NextDrain ==
    \/ \E type \in JobTypes : CallQueueVoice(type)
    \/ LoopStep

SpecDrain == Init /\ [][NextDrain]_vars /\ WF_vars(LoopStep)

\* The assistant with its queue, driven by the host, the recognition
\* engine, the LLM, the TTS backend and the timers
Next ==
    \/ CallStartListening
    \/ CallStopListening
    \/ CallAssistantCleanup
    \/ CallForceRestartListening
    \/ CallAnnounceNavigation
    \/ CallSetCallbacks
    \/ EngineStarted
    \/ \E len \in TranscriptLengths, cls \in TranscriptClasses,
          throws \in BOOLEAN : EngineResult(len, cls, throws)
    \/ \E kind \in ErrorKinds : EngineError(kind)
    \/ EngineEnded
    \/ StaleEngineEnded
    \/ Tick
    \/ SafetyCheckTimeoutFired
    \/ \E startError \in BOOLEAN : RestartTimeoutFires(startError)
    \/ \E t \in timers : TimerFires(t)
    \/ SmartRestartResumes
    \/ \E p \in pt : TranscriptSpeechComplete(p)
    \/ \E c \in sc : SafetyCheckSpeechComplete(c)
    \/ \E p \in pt : GeminiReplies(p)
    \/ \E p \in pt : GeminiFails(p)
    \/ SafetySpotCallbackSettles
    \/ EmergencyCallbackSettles
    \/ \E j \in direct : DirectUtteranceEnds(j)
    \/ LoopStep

Spec == Init /\ [][Next]_vars

\* The assistant while the user stays silent: the host starts and stops
\* it and announces navigation, the engine starts and ends, time passes
NextQuiet ==
    \/ CallStartListening
    \/ CallStopListening
    \/ CallAnnounceNavigation
    \/ EngineStarted
    \/ EngineEnded
    \/ StaleEngineEnded
    \/ Tick
    \/ SafetyCheckTimeoutFires(MaxChecks)
    \/ \E startError \in BOOLEAN : RestartTimeoutFires(startError)
    \/ \E t \in timers : TimerFires(t)
    \/ SmartRestartResumes
    \/ \E c \in sc : SafetyCheckSpeechComplete(c)
    \/ \E j \in direct : DirectUtteranceEnds(j)
    \/ LoopStep

SpecQuiet == Init /\ [][NextQuiet]_vars

\* The assistant while every transcript is a voice command: the host
\* registers its callbacks, starts the assistant and tears it down
NextCommands ==
    \/ CallStartListening
    \/ CallAssistantCleanup
    \/ CallSetCallbacks
    \/ EngineStarted
    \/ \E cls \in {"emergency", "safespot"}, throws \in BOOLEAN :
          EngineResultUpTo(MaxCommandJobs, 3, cls, throws)
    \/ EngineEnded
    \/ StaleEngineEnded
    \/ \E startError \in BOOLEAN : RestartTimeoutFires(startError)
    \/ \E t \in timers : TimerFires(t)
    \/ SmartRestartResumes
    \/ SafetySpotCallbackSettlesUpTo(MaxCommandJobs)
    \/ EmergencyCallbackSettles
    \/ LoopStep

SpecCommands == Init /\ [][NextCommands]_vars

\* The queue alone with clearQueue() but without cleanup(), the events of
\* the drain loops being weakly fair
NextFlush ==
    \/ \E type \in JobTypes : CallQueueVoice(type)
    \/ CallClearQueue
    \/ LoopStep

SpecFlush == Init /\ [][NextFlush]_vars /\ WF_vars(LoopStep)

\* ---- the text of the safety check, for every context ----
\* updateContext(newContext) (lines 887-889)
UpdateContext(w, newContext) ==
    [w EXCEPT !.context = [k \in ContextKeys |->
                              IF k \in DOMAIN newContext
                              THEN newContext[k] ELSE w.context[k]],
              !.safetyMessage = NoMessage]

CallUpdateContext(newContext) ==
    /\ SetWorld(UpdateContext(World, newContext))
    /\ UNCHANGED counters

\* const safetyMessage = this.generateSafetyCheckMessage() (line 445)
SafetyCheckMessageGenerated(r) ==
    /\ SetWorld([World EXCEPT
                    !.safetyMessage = generateSafetyCheckMessage(context, r)])
    /\ UNCHANGED counters

NextMessage ==
    \/ \E newContext \in PartialContexts : CallUpdateContext(newContext)
    \/ \E r \in RandomIndexes : SafetyCheckMessageGenerated(r)

SpecMessage == InitMessage /\ [][NextMessage]_vars

TypeOK ==
    /\ queue \in Seq(JobIds)
    /\ vqIsProcessing \in BOOLEAN
    /\ currentAudio \in 0..MaxJobs
    /\ \A l \in loops : l.job \in JobIds /\ l.pc \in LoopPcs
    /\ \A j \in JobIds : future[j] \in FutureStates
    /\ nextId \in 1..(MaxJobs + 1)
    /\ engine \in EngineStates
    /\ safetyCheckTimeout \in {NoTimer, 0, TickMs, SAFETY_CHECK_INTERVAL}
    /\ safetyTimers \in 0..1
    /\ sinceActivity \in 0..SAFETY_CHECK_INTERVAL
    /\ context \in Contexts
    /\ safetyMessage \in {NoMessage} \cup AllSafetyMessages

-----------------------------------------------------------------------------
(* Properties *)

Range(seq) == {seq[i] : i \in 1..Len(seq)}

\* position of x in seq (0 when absent)
Pos(seq, x) ==
    IF x \in Range(seq) THEN CHOOSE i \in 1..Len(seq) : seq[i] = x ELSE 0

\* loops that are inside executeVoiceJob
Executing == {l \in loops : l.pc # "delay"}

\* C1: as long as cleanup() has not been called, at most one job is being
\* executed, and every job whose execution began before the latest one has
\* had its promise resolved or rejected.
C1_OneJobAtATime ==
    ~cleaned =>
        /\ Cardinality(loops) <= 1
        /\ \A i \in 1..(Len(execOrder) - 1) : future[execOrder[i]] # "pending"

\* a second job began executing after an earlier one, with a third waiting
C1_Witness ==
    /\ ~cleaned
    /\ Len(execOrder) >= 2
    /\ Executing # {}
    /\ Len(queue) >= 1

\* jobs a, a+1, a+2 were enqueued as conversation, safety-check, navigation,
\* the first on an idle queue, and no job completed in between
Burst(a) ==
    /\ a + 2 \in JobIds
    /\ jobType[a] = "conversation"
    /\ jobType[a + 1] = "safety-check"
    /\ jobType[a + 2] = "navigation"
    /\ idleAtEnqueue[a]
    /\ a \in pendingAtEnqueue[a + 1]
    /\ {a, a + 1} \subseteq pendingAtEnqueue[a + 2]

\* C2 as stated: after [conversation, safety-check, navigation] on an idle
\* queue the jobs are played safety-check, navigation, conversation.
C2_AsStated ==
    \A a \in JobIds :
        Burst(a) /\ {a, a + 1, a + 2} \subseteq Range(execOrder) =>
            /\ Pos(execOrder, a + 1) < Pos(execOrder, a + 2)
            /\ Pos(execOrder, a + 2) < Pos(execOrder, a)

\* C2 amended: the conversation job starts at once because the queue was
\* idle, then the two waiting jobs are played by priority: conversation,
\* safety-check, navigation.
C2_DrainOrder ==
    \A a \in JobIds :
        Burst(a) /\ {a, a + 1, a + 2} \subseteq Range(execOrder) =>
            /\ Pos(execOrder, a) < Pos(execOrder, a + 1)
            /\ Pos(execOrder, a + 1) < Pos(execOrder, a + 2)

C2_Witness ==
    \E a \in JobIds :
        Burst(a) /\ {a, a + 1, a + 2} \subseteq Range(execOrder)

\* C7: a flush rejects every waiting job with the queue-cleared error and
\* empties the queue; a job rejected that way is never executed, and the
\* queue-cleared rejection is a different outcome from a playback failure.
C7_FlushRejectsWaiting ==
    /\ [][flushes' = flushes + 1 =>
            /\ queue' = <<>>
            /\ \A j \in Range(queue) : future'[j] = "cleared"]_vars
    /\ [](\A j \in JobIds : future[j] = "cleared" =>
            /\ j \notin Range(execOrder)
            /\ j \notin Range(queue)
            /\ \A l \in loops : l.job # j)
    /\ [][\A j \in JobIds : future[j] = "cleared" => future'[j] = "cleared"]_vars

\* a flush hit one executing job and at least two waiting ones
C7_Witness ==
    /\ flushed # {}
    /\ Cardinality({j \in JobIds : future[j] = "cleared"}) >= 2

\* C8 as stated: the job that was executing when the queue was flushed has
\* its promise rejected with the queue-cleared error.
C8_FlushSettlesExecuting ==
    \A j \in flushed : future[j] = "cleared"

\* C9 as stated: a job that was in flight when the queue was flushed
\* produces no audio afterwards.
C9_NoAudioAfterFlush ==
    \A l \in loops : l.job \in flushed => l.pc \notin {"playing", "fallback"}

\* C10: without flush, a job's promise is resolved only when its audio
\* (primary or fallback) ends, rejected only when its synthesis or playback
\* fails, never settled twice; every enqueued job is eventually settled
\* and the busy flag eventually returns to false.
C10_EveryJobSettledOnce ==
    /\ [](\A j \in JobIds :
            /\ settles[j] <= 1
            /\ (settles[j] = 1) = (future[j] \in {"resolved", "failed"})
            /\ future[j] # "cleared")
    /\ [][\A j \in JobIds :
            /\ (future[j] = "pending" /\ future'[j] = "resolved") =>
                 \E l \in loops : l.job = j /\ l.pc \in {"playing", "fallback"}
            /\ (future[j] = "pending" /\ future'[j] = "failed") =>
                 \E l \in loops : l.job = j
                     /\ l.pc \in {"fetch", "loading", "playing", "fallback"}]_vars
    /\ \A j \in JobIds : (future[j] = "pending") ~> (future[j] # "pending")
    /\ [](vqIsProcessing => <>(~vqIsProcessing /\ queue = <<>>))

\* a job failed and a job behind it was played to the end
C10_Witness ==
    \E i, k \in JobIds :
        /\ Pos(execOrder, i) > 0
        /\ Pos(execOrder, i) < Pos(execOrder, k)
        /\ future[i] = "failed"
        /\ future[k] = "resolved"
        /\ ~vqIsProcessing
-----------------------------------------------------------------------------
(* Properties of the assistant *)

\* C3 as stated: every branch of processTranscript ends with isProcessing
\* false and, if the assistant is still listening when the branch
\* completes, with exactly one call of restartListening.
C3_SameExitSequence ==
    /\ event.reset => ~isProcessing
    /\ (event.exit # "none" /\ event.listening) => event.restarts = 1

\* since startListening no call from the host and no engine error has
\* happened
Undisturbed == nEvents = nTranscripts + 1

\* the assistant is listening, its engine is not started, and neither a
\* timer nor a suspended call is left that would start it
Stranded ==
    /\ isListening
    /\ recognition
    /\ engine = "idle"
    /\ staleEngines = 0
    /\ ~isRecognitionActive
    /\ ~restartTimeout
    /\ ~smartWaits
    /\ timers = {}
    /\ pt = {}

\* a stranded microphone stays stranded until the host calls the assistant:
\* safety checks go on, the engine is never started
StrandedStays == [][(Stranded /\ nEvents' = nEvents) => Stranded']_vars

\* C4 as stated: while the assistant is listening and undisturbed, the
\* engine is started or something is left that will start it.
C4_MicrophoneResumes == Undisturbed => ~Stranded

\* C5 as stated: a transcript is accepted only if it is longer than 2 and
\* isProcessing is false, and two transcripts are never in processing at
\* the same time.
C5_OneTranscriptAtATime ==
    /\ event.accepted # 0 => (event.accepted > 2 /\ ~event.wasBusy)
    /\ Cardinality(pt) <= 1

\* C6 as stated: each entry into processing is matched by one return to
\* idle of its own: the closing reset of a transcript's processing is not
\* run while a transcript accepted after it is still in processing.
C6_OneReturnPerEntry ==
    (event.reset /\ event.by # 0) => \A p \in pt : p.tid < event.by

-----------------------------------------------------------------------------
(* Properties of the queue: order *)

\* C11: the waiting queue is always sorted by ascending priority number
\* (safety-check 1, navigation 2, conversation 3), and waiting jobs of equal
\* priority are in the order in which they were enqueued.
C11_QueueSorted ==
    /\ getPriority("safety-check") = 1
    /\ getPriority("navigation") = 2
    /\ getPriority("conversation") = 3
    /\ \A i, k \in 1..Len(queue) :
         i < k =>
           \/ getPriority(jobType[queue[i]]) < getPriority(jobType[queue[k]])
           \/ /\ getPriority(jobType[queue[i]]) = getPriority(jobType[queue[k]])
              /\ queue[i] < queue[k]

\* two jobs are waiting and the one enqueued later is ahead of the other
C11_Witness ==
    /\ Len(queue) = 2
    /\ queue[1] > queue[2]

\* a queueVoice call made while a job is executing leaves that job alone
\* and puts the new job behind the waiting jobs of equal or higher priority
\* and ahead of those of lower priority
EnqueueWaitsItsTurn ==
    (nextId' = nextId + 1 /\ Executing # {}) =>
        /\ \A l \in Executing : l \in loops'
        /\ currentAudio' = currentAudio
        /\ execOrder' = execOrder
        /\ nextId \in Range(queue')
        /\ \A j \in Range(queue) :
             IF getPriority(jobType[j]) > getPriority(jobType'[nextId])
             THEN Pos(queue', nextId) < Pos(queue', j)
             ELSE Pos(queue', j) < Pos(queue', nextId)

\* waiting jobs never change places, and the job that begins to execute is
\* the head of the queue (or the job just enqueued on an empty idle queue)
PlayedInQueueOrder ==
    /\ \A j, k \in Range(queue) \cap Range(queue') :
         Pos(queue, j) < Pos(queue, k) => Pos(queue', j) < Pos(queue', k)
    /\ execOrder' # execOrder =>
         execOrder' = Append(execOrder,
                             IF queue # <<>> THEN Head(queue) ELSE nextId)

\* C12 as stated: a job enqueued while another job is executing never
\* interrupts it, and it is played before every still-waiting job of lower
\* priority and after every waiting job of equal or higher priority.
C12_NoPreemption ==
    /\ [][EnqueueWaitsItsTurn]_vars
    /\ [][PlayedInQueueOrder]_vars

\* the same, as long as VoiceQueueService.cleanup() has not been called
NoPreemptionBeforeCleanup ==
    /\ [][~cleaned => EnqueueWaitsItsTurn]_vars
    /\ [][PlayedInQueueOrder]_vars

-----------------------------------------------------------------------------
(* Properties of the assistant: safety checks *)

\* C13 as stated: when the safety-check timer fires while the voice queue
\* is speaking or while a transcript is being processed, no safety-check
\* job is enqueued at that firing and the timer is re-armed for a full
\* interval.
C13_DeferredWhileBusy ==
    [][(/\ event'.check # "none"
        /\ isListening
        /\ IsSpeaking(World) \/ (isProcessing /\ pt # {}))
       => /\ nextId' = nextId
          /\ safetyCheckTimeout' = SAFETY_CHECK_INTERVAL]_vars

\* C14 as stated: accepting a final transcript cancels the pending
\* safety-check timer (the timer is then off, or armed afresh for a full
\* interval), and no safety-check job is enqueued while a transcript is
\* being processed.
C14_NoCheckWhileProcessing ==
    /\ [][event'.accepted # 0 =>
            safetyCheckTimeout' \in {NoTimer, SAFETY_CHECK_INTERVAL}]_vars
    /\ [][event'.check = "spoken" => ~(isProcessing /\ pt # {})]_vars

\* C15 as stated: a firing of the timer after a quiet interval, with
\* isProcessing false and nothing speaking, enqueues exactly one
\* safety-check job; and a safety-check job is never enqueued while an
\* earlier safety check is still in flight.
C15_ChecksNeverOverlap ==
    /\ [][(/\ event'.check # "none"
           /\ isListening
           /\ sinceActivity >= SAFETY_CHECK_INTERVAL
           /\ ~isProcessing
           /\ ~IsSpeaking(World))
          => /\ nextId' = nextId + 1
             /\ jobType'[nextId] = "safety-check"]_vars
    /\ [][event'.check = "spoken" => sc = {}]_vars

-----------------------------------------------------------------------------
(* Properties of the assistant: restarting the engine *)

\* sound is coming out: an Audio element or a fallback utterance is playing
AudioPlaying == \E l \in loops : l.pc \in {"playing", "fallback"}

\* C16 as stated: whenever the callback of restartListening's timer calls
\* recognition.start(), isSpeaking() is false and no audio is playing, and
\* a restart requested through smartRestart is scheduled only once
\* isSpeaking() is false.
C16_NoRestartWhileSpeaking ==
    /\ [][event'.start # "none" =>
            ~IsSpeaking(World) /\ ~AudioPlaying]_vars
    /\ [][(smartWaits /\ ~smartWaits' /\ restartTimeout') =>
            ~IsSpeaking(World)]_vars

\* C17: after a fatal recognition error, and until startListening is
\* called again, isListening and isRecognitionActive are false, no timer
\* or callback calls recognition.start(), and no safety-check job is
\* enqueued.
C17_FatalErrorStopsForGood ==
    /\ [](fatal => ~isListening /\ ~isRecognitionActive)
    /\ [][(fatal /\ fatal') =>
            /\ event'.start = "none"
            /\ engine' = "starting" => engine = "starting"
            /\ event'.check # "spoken"
            /\ \A j \in JobIds :
                 (jobType[j] = "none" /\ jobType'[j] # "none") =>
                     jobType'[j] # "safety-check"]_vars

\* after a fatal error the pending safety-check timer has fired and found
\* the assistant not listening
C17_Witness == fatal /\ event.check = "cancelled"

\* C18: when recognition.start() throws "already started" in a restart
\* attempt, isRecognitionActive becomes true and no retry or restart timer
\* is scheduled; when it throws anything else, the 2 s retry timer is
\* scheduled and isRecognitionActive stays false.
C18_AlreadyStartedIsSuccess ==
    /\ [][event'.start = "already" =>
            /\ isRecognitionActive'
            /\ timers' = timers
            /\ ~restartTimeout']_vars
    /\ [][event'.start = "failed" =>
            /\ ~isRecognitionActive'
            /\ [kind |-> "retry", tid |-> 0] \in timers'
            /\ ~restartTimeout']_vars

\* a restart attempt found the engine already started
C18_Witness ==
    /\ event.start = "already"
    /\ isRecognitionActive
    /\ engine # "idle"

\* the timer set by forceRestartListening
ForceTimer == [kind |-> "force", tid |-> 0]

\* the engine is not started and nothing is left that would start it
NothingWillStart ==
    /\ engine = "idle"
    /\ staleEngines = 0
    /\ ~restartTimeout
    /\ ~smartWaits
    /\ timers = {}
    /\ pt = {}
    /\ sc = {}

\* C19 as stated: forceRestartListening, in any state, stops the current
\* engine and cancels the scheduled restart timer, and once its delay is
\* over the engine is started afresh: it is started, or something is left
\* that will start it.
C19_ForceRestartStartsAfresh ==
    /\ [][(ForceTimer \notin timers /\ ForceTimer \in timers') =>
            /\ engine' \notin {"starting", "running"}
            /\ ~isRecognitionActive'
            /\ ~restartTimeout']_vars
    /\ [][(ForceTimer \in timers /\ ForceTimer \notin timers') =>
            ~NothingWillStart']_vars

-----------------------------------------------------------------------------
(* Properties of the assistant: voice commands *)

\* the branches of handleSpecialCommands for a safe-spot transcript
SpotBranches == {"spot", "spotBusy", "spotNoCallback"}

\* a safe-spot transcript accepted while a safe-spot callback is
\* outstanding does not invoke the callback again and enqueues one job,
\* the "please wait" message
SecondRequestWaits ==
    (event'.cmd \in SpotBranches /\ spotCalls > 0) =>
        /\ event'.cmd = "spotBusy"
        /\ spotCalls' = spotCalls
        /\ nextId' = nextId + 1
        /\ jobType'[nextId] = "navigation"

\* a safe-spot transcript accepted with a callback registered and no
\* request in progress enqueues one job, the "looking" acknowledgement,
\* and invokes the callback
FirstRequestInvokes ==
    event'.cmd = "spot" =>
        /\ nextId' = nextId + 1
        /\ jobType'[nextId] = "navigation"
        /\ spotCalls' <= spotCalls + 1

\* C20 as stated: two safe-spot transcripts accepted before the first
\* safe-spot callback has settled lead to one invocation of the callback
\* and two voice jobs, the acknowledgement and the "please wait" message.
C20_SafeSpotDeduplicated ==
    /\ [](spotCalls <= 1)
    /\ [][FirstRequestInvokes]_vars
    /\ [][SecondRequestWaits]_vars

\* the same, as long as cleanup() has not been called
DeduplicatedBeforeCleanup ==
    /\ [](~cleaned => spotCalls <= 1)
    /\ [][FirstRequestInvokes]_vars
    /\ [][~cleaned => SecondRequestWaits]_vars

\* the second of two safe-spot requests was answered with "please wait"
\* while the callback of the first was outstanding
DeduplicatedReached == ~cleaned /\ event.cmd = "spotBusy" /\ spotCalls = 1

\* an emergency transcript accepted while an emergency callback is
\* outstanding does not invoke the callback again
SecondEmergencyWaits ==
    (event'.cmd = "emergency" /\ emergencyCalls > 0) =>
        emergencyCalls' = emergencyCalls

\* C21 as stated: for each intercepted intent (emergency alert and nearest
\* safe spot) at most one invocation of its callback is in flight at any
\* time: a matching transcript accepted while the callback is outstanding
\* does not invoke it again.
C21_OneCallbackInFlight ==
    /\ [](emergencyCalls <= 1 /\ spotCalls <= 1)
    /\ [][SecondEmergencyWaits]_vars
    /\ [][(event'.cmd \in SpotBranches /\ spotCalls > 0) =>
            spotCalls' = spotCalls]_vars

\* C22 as stated: isHandlingSafetySpot is set when a safe-spot request is
\* intercepted and reset once the request is over (the callback resolves,
\* rejects or throws, or no callback is registered): it is never true with
\* no safe-spot callback outstanding.
C22_FlagAlwaysReset ==
    /\ [](isHandlingSafetySpot => spotCalls > 0)
    /\ [][spotCalls' > spotCalls => isHandlingSafetySpot']_vars
    /\ [][spotCalls' < spotCalls => ~isHandlingSafetySpot']_vars
    /\ [][event'.cmd = "spotNoCallback" => ~isHandlingSafetySpot']_vars

-----------------------------------------------------------------------------
(* Properties of the assistant: the LLM path *)

\* C23: an accepted transcript that matches an emergency or safe-spot
\* pattern causes no LLM call and no reply, in that step or later; an
\* accepted transcript that matches no pattern causes exactly one LLM call;
\* a reply is voiced only for a transcript whose LLM call is pending.
C23_CommandsSkipTheLLM ==
    /\ [][(event'.accepted # 0 /\ event'.cmd # "none") =>
            event'.llm = 0 /\ pt' = pt]_vars
    /\ [][(event'.accepted # 0 /\ event'.cmd = "none") =>
            /\ event'.llm = 1
            /\ pt' \ pt = {[tid |-> nTranscripts', stage |-> "llm", job |-> 0]}
            /\ \A p \in pt : p.tid # nTranscripts']_vars
    /\ [][event'.accepted = 0 => event'.llm = 0]_vars
    /\ [][\A p \in pt' \ pt :
            \/ p.stage = "llm" /\ event'.llm = 1
            \/ \E q \in pt : q.tid = p.tid /\ q.stage \in {"llm", "speak"}]_vars

\* a safe-spot request is in progress and the next transcript, which
\* matches no pattern, has just been sent to the LLM
C23_Witness ==
    /\ event.llm = 1
    /\ nTranscripts = 2
    /\ isHandlingSafetySpot
    /\ \E p \in pt : p.tid = 2 /\ p.stage = "llm"

\* C24 as stated: when the session is torn down (cleanup or stopListening)
\* while the LLM request of an accepted transcript is in flight, the reply
\* that arrives afterwards is not voiced: no conversation job is enqueued
\* for it.
C24_StaleReplyNotVoiced ==
    [][\A p \in pt :
         (p.stage = "llm" /\ p.tid \in stale) =>
             /\ ~(\E q \in pt' : q.tid = p.tid /\ q.stage = "speak")
             /\ (p \notin pt' => nextId' = nextId)]_vars

-----------------------------------------------------------------------------
(* Properties of the queue: the busy indicator *)

\* a drain loop is running: it is executing a job (from the TTS request to
\* the end of the audio) or pausing between two jobs
Draining == loops # {}

\* C25 as stated: isSpeaking() is true if and only if a job is being
\* executed or waiting jobs are being drained, in every reachable state,
\* including after clearQueue or cleanup.
C25_IsSpeakingExact == IsSpeaking(World) <=> Draining

\* the same, as long as VoiceQueueService.cleanup() has not been called
SpeakingExactBeforeCleanup == ~cleaned => (IsSpeaking(World) <=> Draining)

\* cleanup() was called and a TTS request sent before it is still in
\* flight, while isSpeaking() answers false
SilentInFlightReached ==
    /\ cleaned
    /\ ~IsSpeaking(World)
    /\ \E l \in loops : l.pc = "fetch"

-----------------------------------------------------------------------------
(* Properties of the queue: the offline fallback *)

\* positions of a loop inside textToSpeechElevenLabs / textToSpeechBrowser
PrimaryPcs == {"fetch", "loading", "playing", "stopped", "abort"}
FallbackPcs == {"fallback", "canceled"}

\* the position, after the step, of the loop that was executing job j
\* ("gone" when that loop has moved on)
PcAfter(j) ==
    IF \E k \in loops' : k.job = j
    THEN (CHOOSE k \in loops' : k.job = j).pc
    ELSE "gone"

\* C26: when primary synthesis fails for a navigation job the browser
\* fallback is attempted, and the job's promise is resolved when the
\* fallback ends and rejected only when the fallback fails too; when it
\* fails for a conversation or safety-check job no fallback is attempted
\* and the promise is rejected at once.
C26_FallbackForNavigationOnly ==
    /\ [](\A l \in loops :
            l.pc \in FallbackPcs => jobType[l.job] = "navigation")
    /\ [][\A l \in loops :
            (l.pc \in PrimaryPcs /\ future[l.job] = "pending"
             /\ Cardinality({k \in loops : k.job = l.job}) = 1) =>
              IF jobType[l.job] = "navigation"
              THEN /\ future'[l.job] # "failed"
                   /\ PcAfter(l.job) \in PrimaryPcs \cup {"fallback", "delay"}
                   /\ PcAfter(l.job) = "fallback" => future'[l.job] = "pending"
                   /\ PcAfter(l.job) = "delay" =>
                        l.pc = "playing" /\ future'[l.job] = "resolved"
              ELSE /\ PcAfter(l.job) \in PrimaryPcs \cup {"delay"}
                   /\ PcAfter(l.job) = "delay" =>
                        \/ l.pc = "playing" /\ future'[l.job] = "resolved"
                        \/ future'[l.job] = "failed"]_vars
    /\ [][\A l \in loops :
            (l.pc \in FallbackPcs /\ future[l.job] = "pending") =>
              /\ PcAfter(l.job) \in FallbackPcs \cup {"delay"}
              /\ PcAfter(l.job) = "delay" =>
                   future'[l.job] \in {"resolved", "failed"}
              /\ PcAfter(l.job) # "delay" => future'[l.job] = "pending"]_vars

\* the primary synthesis of a conversation job has failed and its promise
\* is rejected, and that of a navigation job has failed and its fallback
\* utterance is being spoken, its promise pending
C26_Witness ==
    /\ \E j \in JobIds : jobType[j] = "conversation" /\ future[j] = "failed"
    /\ \E l \in loops : /\ l.pc = "fallback"
                        /\ jobType[l.job] = "navigation"
                        /\ future[l.job] = "pending"

-----------------------------------------------------------------------------
(* Properties of the whole: one audio path *)

\* C27 as stated: every start of audio output happens inside the drain
\* loop of the voice queue: no component starts speech synthesis or
\* playback itself, not even when a navigation announcement fails.
C27_AllAudioThroughQueue == direct = {}

-----------------------------------------------------------------------------
(* Properties of the assistant: deferred restarts *)

\* C28 as stated: a restart whose timer fires while isSpeaking() is true
\* (the assistant listening, no transcript in processing) is deferred, not
\* lost: something is left that will start the engine once speech ends.
C28_DeferredRestartNotLost == [][event'.deferred => ~Stranded']_vars

-----------------------------------------------------------------------------
(* Properties of the assistant: pausing the engine *)

\* a transcript was accepted in this step while the engine was started and
\* marked active
AcceptedWhileActive ==
    /\ event'.accepted # 0
    /\ recognition
    /\ isRecognitionActive
    /\ engine = "running"

\* C29 as stated: on acceptance of a final transcript recognition.stop()
\* is requested if the engine is active, in every branch, commands
\* included: the engine is not left running.
C29_EnginePausedOnAcceptance ==
    [][AcceptedWhileActive => engine' = "stopping"]_vars

\* the same for the transcripts that match no command
PausedForTheLLM ==
    [][(AcceptedWhileActive /\ event'.cmd = "none") =>
          engine' = "stopping"]_vars

\* the acknowledgement of an intercepted command is being fetched or
\* played while the engine is still running
ListeningToItselfReached ==
    /\ engine = "running"
    /\ event.cmd # "none"
    /\ Executing # {}

-----------------------------------------------------------------------------
(* Properties of the assistant: the processing flag *)

\* C30 as stated: from the acceptance of a transcript that goes to the LLM
\* until its reply has been played and the voice queue is idle,
\* isProcessing stays true: it is never cleared by another activity while
\* that transcript is in flight.
C30_ProcessingHeldUntilReplyDone == pt # {} => isProcessing

\* the same, as long as no call from the host and no engine error has
\* happened since startListening
ProcessingHeldUndisturbed == (Undisturbed /\ pt # {}) => isProcessing

-----------------------------------------------------------------------------
(* Properties of the assistant: the safe-spot request *)

\* the interception of a safe-spot request with a callback registered: the
\* "looking" acknowledgement is enqueued, the flag is set, the callback is
\* invoked
SpotIntercepted ==
    (event'.cmd = "spot" /\ spotCalls' > spotCalls) =>
        /\ nextId' = nextId + 1
        /\ jobType'[nextId] = "navigation"
        /\ isHandlingSafetySpot'
        /\ spotCalls' = spotCalls + 1
        /\ event'.spotMsg = "none"

\* the callback settles: one message is enqueued, "Route updated" or the
\* apology, and the flag is reset
SpotSettled ==
    spotCalls' < spotCalls =>
        /\ spotCalls' = spotCalls - 1
        /\ nextId' = nextId + 1
        /\ jobType'[nextId] = "navigation"
        /\ event'.spotMsg \in {"updated", "apology"}
        /\ ~isHandlingSafetySpot'

\* restartListening is called for the request only once its callback has
\* settled
SpotResumesLast ==
    (event'.cmd = "spot" /\ spotCalls' > spotCalls) => event'.restarts = 0

\* C31 as stated: for a safe-spot transcript with a callback registered the
\* events occur in this order: the acknowledgement is enqueued, the
\* callback is invoked, when it settles "Route updated" or the apology is
\* enqueued (never both), the flag is reset, and recognition resumes.
C31_SafeSpotSequence ==
    /\ [][SpotIntercepted]_vars
    /\ [][SpotSettled]_vars
    /\ [][event'.spotMsg # "none" => spotCalls' < spotCalls]_vars
    /\ [][SpotResumesLast]_vars

\* the same without the position of the restart
SafeSpotSequenceButRestart ==
    /\ [][SpotIntercepted]_vars
    /\ [][SpotSettled]_vars
    /\ [][event'.spotMsg # "none" => spotCalls' < spotCalls]_vars

\* the callback of a safe-spot request has resolved and "Route updated"
\* was enqueued behind the acknowledgement
RouteUpdatedReached ==
    /\ event.spotMsg = "updated"
    /\ ~isHandlingSafetySpot
    /\ spotCalls = 0
    /\ nextId = 3

-----------------------------------------------------------------------------
(* Properties of the assistant: the emergency request *)

\* C32: a transcript that matches an emergency pattern and a safe-spot
\* pattern is handled as an emergency only: the emergency acknowledgement
\* is enqueued and the emergency callback invoked, the safe-spot callback
\* is not invoked and isHandlingSafetySpot is unchanged.
C32_EmergencyFirst ==
    [][(event'.accepted # 0 /\ event'.both) =>
          /\ event'.cmd =
                IF "emergency" \in callbacks THEN "emergency"
                ELSE "emergencyNoCallback"
          /\ nextId' = nextId + 1
          /\ jobType'[nextId] = "conversation"
          /\ emergencyCalls' >= emergencyCalls
          /\ spotCalls' = spotCalls
          /\ isHandlingSafetySpot' = isHandlingSafetySpot
          /\ event'.spotMsg = "none"]_vars

\* a transcript matching both patterns was accepted with both callbacks
\* registered: the emergency callback is outstanding, the safe-spot one
\* was not invoked
C32_Witness ==
    /\ event.both
    /\ event.cmd = "emergency"
    /\ callbacks = {"spot", "emergency"}
    /\ emergencyCalls = 1
    /\ spotCalls = 0
    /\ ~isHandlingSafetySpot

\* the 1 s timer set by the catch block of processTranscript is pending
ErrorPathPending == \E t \in timers : t.kind = "errorPath"

\* C33: handling an emergency transcript always enqueues exactly one voice
\* job and returns to idle: with a callback registered the acknowledgement
\* is enqueued and the callback invoked once, and a failure of the callback
\* (a throw or a rejection) does not keep isProcessing true or listening
\* from resuming; with no callback an explanatory job is enqueued.
C33_EmergencyAlwaysAnswered ==
    /\ [][event'.cmd \in {"emergency", "emergencyNoCallback"} =>
            /\ nextId' = nextId + 1
            /\ jobType'[nextId] = "conversation"
            /\ event'.reset
            /\ ~isProcessing'
            /\ isListening' => (restartTimeout' \/ ErrorPathPending')
            /\ emergencyCalls' \in {emergencyCalls, emergencyCalls + 1}
            /\ event'.cmd = "emergencyNoCallback" =>
                 ("emergency" \notin callbacks
                  /\ emergencyCalls' = emergencyCalls)
            /\ (event'.cmd = "emergency" /\ ~ErrorPathPending'
                /\ isListening') => emergencyCalls' = emergencyCalls + 1]_vars
    /\ [][emergencyCalls' < emergencyCalls =>
            /\ isProcessing' = isProcessing
            /\ isListening' = isListening
            /\ restartTimeout' = restartTimeout
            /\ timers' = timers
            /\ nextId' = nextId]_vars
    /\ [][\A t \in timers \ timers' :
            t.kind = "errorPath" => restartTimeout']_vars

\* the emergency callback threw: the acknowledgement is enqueued,
\* isProcessing is false again and the restart is scheduled
C33_Witness ==
    /\ event.cmd = "emergency"
    /\ emergencyCalls = 0
    /\ nextId = 2
    /\ ~isProcessing
    /\ isListening
    /\ ErrorPathPending

-----------------------------------------------------------------------------
(* Properties of the assistant: stopped means stopped *)

\* C34: while isListening is false, after stopListening() and until
\* startListening is called again, no timer, engine callback or in-flight
\* continuation calls recognition.start() or enqueues a safety-check job,
\* and none of them sets isListening again.
C34_StoppedStaysStopped ==
    /\ [][(~isListening /\ ~isListening') =>
            /\ event'.start = "none"
            /\ engine' = "starting" => engine = "starting"
            /\ event'.check # "spoken"
            /\ \A j \in JobIds :
                 (jobType[j] = "none" /\ jobType'[j] # "none") =>
                     jobType'[j] # "safety-check"]_vars
    /\ [][(~isListening /\ nEvents' = nEvents) => ~isListening']_vars

\* after stopListening() the reply of the transcript that was in flight
\* has been spoken to its end and its continuation did not restart
\* listening
C34_Witness ==
    /\ ~isListening
    /\ ~fatal
    /\ ~cleaned
    /\ event.exit = "reply"
    /\ event.restarts = 0
    /\ event.tid \in stale

-----------------------------------------------------------------------------
(* Properties of the assistant: the no-speech error *)

\* C35: a no-speech error changes no flag and schedules nothing; the
\* restart after it comes from the end event that follows, which requests
\* one restart (the restart timer, or the wait for the speech to
\* complete) and sets no other timer.
C35_NoSpeechLeavesItToOnEnd ==
    /\ [][event'.error = "no-speech" =>
            /\ isListening' = isListening
            /\ isRecognitionActive' = isRecognitionActive
            /\ isProcessing' = isProcessing
            /\ restartTimeout' = restartTimeout
            /\ smartWaits' = smartWaits
            /\ timers' = timers
            /\ safetyCheckTimeout' = safetyCheckTimeout
            /\ engine' = "ending"
            /\ event'.start = "none"]_vars
    /\ [][(engine = "ending" /\ engine' = "idle") =>
            /\ timers' = timers
            /\ ~isRecognitionActive'
            /\ event'.start = "none"
            /\ IF isListening /\ ~isProcessing
               THEN restartTimeout' \/ smartWaits'
               ELSE restartTimeout' = restartTimeout
                    /\ smartWaits' = smartWaits]_vars

\* a no-speech error has been raised on the running engine: the flags are
\* untouched, nothing is scheduled, the end event is pending
C35_Witness ==
    /\ event.error = "no-speech"
    /\ isListening
    /\ isRecognitionActive
    /\ ~isProcessing
    /\ engine = "ending"
    /\ ~restartTimeout
    /\ timers = {}

-----------------------------------------------------------------------------
(* Properties of the assistant: the safety-check timer *)

\* C36: at most one safety-check timer is pending, and it is the one the
\* safetyCheckTimeout field refers to; a step that arms the timer leaves
\* isListening true; stopListening leaves no timer pending.
C36_OneSafetyTimer ==
    /\ [](safetyTimers <= 1)
    /\ [](safetyTimers = IF safetyCheckTimeout = NoTimer THEN 0 ELSE 1)
    /\ [][(safetyCheckTimeout' = SAFETY_CHECK_INTERVAL
           /\ (safetyCheckTimeout # SAFETY_CHECK_INTERVAL
               \/ event'.check = "rearmed"))
          => isListening']_vars
    /\ [][event'.stopped =>
            safetyTimers' = 0 /\ safetyCheckTimeout' = NoTimer]_vars
    /\ [](~isListening /\ ~fatal => safetyTimers = 0)

\* a pending timer has been replaced by a new one: the reply to a
\* transcript is done while the timer armed by onresult is still running
C36_Witness ==
    /\ event.exit = "reply"
    /\ event.listening
    /\ safetyTimers = 1
    /\ safetyCheckTimeout = SAFETY_CHECK_INTERVAL
    /\ isListening

\* stopListening has cancelled a pending timer
SafetyTimerCancelledReached ==
    /\ event.stopped
    /\ safetyTimers = 0
    /\ nEvents > 0

\* C37 as stated: a safety-check job is enqueued only when the interval
\* has elapsed since the last activity; whenever the timer fires earlier,
\* nothing is enqueued, isProcessing is left alone and the timer is armed
\* again.
C37_AsStated ==
    /\ [][(nextId' > nextId /\ jobType'[nextId] = "safety-check")
          => sinceActivity >= SAFETY_CHECK_INTERVAL]_vars
    /\ [][(event'.check # "none"
           /\ sinceActivity < SAFETY_CHECK_INTERVAL)
          => /\ nextId' = nextId
             /\ isProcessing' = isProcessing
             /\ safetyCheckTimeout' = SAFETY_CHECK_INTERVAL
             /\ safetyTimers' = 1]_vars

\* C37, amended: the same, for the firings that find isListening true (a
\* firing that finds it false returns at once and arms nothing).
C37_CheckOnlyAfterInterval ==
    /\ [][(nextId' > nextId /\ jobType'[nextId] = "safety-check")
          => /\ sinceActivity >= SAFETY_CHECK_INTERVAL
             /\ event'.check = "spoken"
             /\ isListening]_vars
    /\ [][(event'.check # "none"
           /\ isListening
           /\ sinceActivity < SAFETY_CHECK_INTERVAL)
          => /\ event'.check = "rearmed"
             /\ nextId' = nextId
             /\ queue' = queue
             /\ isProcessing' = isProcessing
             /\ sc' = sc
             /\ safetyCheckTimeout' = SAFETY_CHECK_INTERVAL
             /\ safetyTimers' = 1]_vars
    /\ [][(event'.check # "none" /\ ~isListening)
          => /\ event'.check = "cancelled"
             /\ nextId' = nextId
             /\ isProcessing' = isProcessing
             /\ safetyTimers' = 0]_vars

\* the timer has fired before the interval had elapsed and is armed again
C37_Witness ==
    /\ event.check = "rearmed"
    /\ isListening
    /\ sinceActivity < SAFETY_CHECK_INTERVAL
    /\ safetyCheckTimeout = SAFETY_CHECK_INTERVAL
    /\ ~isProcessing
    /\ nextId = 1

\* the timer left pending by a fatal engine error has fired early
EarlyFiringCancelledReached ==
    /\ event.check = "cancelled"
    /\ sinceActivity < SAFETY_CHECK_INTERVAL
    /\ safetyTimers = 0

-----------------------------------------------------------------------------
(* Properties of the text of the safety check *)

\* the context has a safety score below 60
LowScore(ctx) == ctx.safetyScore # {} /\ The(ctx.safetyScore) < 60

\* the context has a route with danger zones
HasDangerZones(ctx) ==
    ctx.routeDetails # {} /\ The(ctx.routeDetails).dangerZones > 0

\* C38 as stated: the message is the low-score warning for every context
\* with a score below 60 (0 included), else the danger-zone warning for
\* every context with danger zones, else one of the five generic phrases.
C38_MessageForContext ==
    safetyMessage # NoMessage =>
        IF LowScore(context) THEN safetyMessage = LowScoreWarning
        ELSE IF HasDangerZones(context)
        THEN safetyMessage = DangerZoneWarning
        ELSE safetyMessage \in {messages[i] : i \in 1..5}

\* the same for the contexts whose score is not 0
MessageForContextButZero ==
    (safetyMessage # NoMessage /\ context.safetyScore # {0}) =>
        IF LowScore(context) THEN safetyMessage = LowScoreWarning
        ELSE IF HasDangerZones(context)
        THEN safetyMessage = DangerZoneWarning
        ELSE safetyMessage \in {messages[i] : i \in 1..5}

\* a score of 59 with danger zones on the route gets the low-score warning
LowScoreWarningReached ==
    /\ context.safetyScore = {59}
    /\ HasDangerZones(context)
    /\ safetyMessage = LowScoreWarning

-----------------------------------------------------------------------------
(* Properties of the voice queue: the drain loop after cleanup and flush *)

\* C39 as stated: under every sequence of queueVoice, clearQueue and
\* cleanup calls at most one drain loop is active, and at most one job is
\* being executed.
C39_OneDrainLoop ==
    /\ Cardinality(loops) <= 1
    /\ Cardinality(Executing) <= 1

\* the same, as long as cleanup() has not been called
OneDrainLoopBeforeCleanup ==
    ~cleaned => Cardinality(loops) <= 1 /\ Cardinality(Executing) <= 1

\* clearQueue() was called with a job in flight and a job was enqueued
\* later, with a single drain loop
FlushedThenEnqueuedReached ==
    /\ ~cleaned
    /\ flushed # {}
    /\ \E j \in JobIds : jobType[j] # "none" /\ \A f \in flushed : f < j
    /\ Cardinality(loops) = 1

\* clearQueue() was called while the audio of a job was playing: the
\* element is paused and the loop awaits its ended or error event
FlushedWhilePlaying == \E l \in loops : l.pc = "stopped"

\* C40 as stated: after clearQueue() is called while a job is playing, the
\* drain loop eventually finishes (isSpeaking() is false again), and every
\* job enqueued afterwards is eventually played and its promise settled.
C40_UsableAfterFlush ==
    /\ FlushedWhilePlaying ~> ~IsSpeaking(World)
    /\ \A j \in JobIds :
         (/\ FlushedWhilePlaying
          /\ jobType[j] # "none"
          /\ \A f \in flushed : f < j)
         ~> (j \in Range(execOrder) /\ future[j] \in {"resolved", "failed"})

\* the queue after such a flush: busy, a later job waiting, and no event
\* of the drain loop can occur
StuckAfterFlushReached ==
    /\ FlushedWhilePlaying
    /\ vqIsProcessing
    /\ queue # <<>>
    /\ \A f \in flushed : f < Head(queue)
    /\ future[Head(queue)] = "pending"
    /\ ~ENABLED LoopStep

\* a flush that finds the job before its audio plays does not stop the
\* drain: the loop finishes
FlushBeforePlaybackDrains ==
    (flushed # {} /\ ~FlushedWhilePlaying) ~> ~IsSpeaking(World)
====
